---- MODULE Spec2Model ----
(***************************************************************************)
(* A model of vicanso/dnscache: the DNSCache resolution engine             *)
(* (Lookup, LookupWithCache, lookupAndUpdate), its Storage (mapStorage,    *)
(* or a substituted Storage whose calls may return an error), and the      *)
(* detached refresh goroutines LookupWithCache starts on a stale hit.      *)
(*                                                                         *)
(* Time is a discrete clock.  The zero time.Time (CreatedAt.IsZero()) is   *)
(* the number 0; time.Now() is always >= 1.  Durations are clock ticks.    *)
(* Each caller and each refresh goroutine is a frame: its program counter  *)
(* and the local variables of the function it is in.  A call to the        *)
(* resolver and a call to Storage.Set are the points where goroutines      *)
(* interleave.                                                             *)
(***************************************************************************)
EXTENDS Integers, Sequences, FiniteSets, TLC

\* ------------------------------------------------------------------ bounds
MaxTime == 3
MaxTTL == 1
MaxStale == 1
\* lookupAndUpdate executions (callers' and refresh goroutines') at one time
MaxInFlight == 2

\* ------------------------------------------------------------- the universe
Hosts == {"h1"}
\* The user goroutines that call the cache.  Further executions of
\* lookupAndUpdate at the same time are the refresh goroutines, which run the
\* same code as a caller's.
Callers == {"c1"}
\* What the resolver can answer (net.Resolver.LookupIP), and what a user can Set.
AddrLists == {<<>>, <<"a">>, <<"b", "a">>}

NoErr == "nil"
ErrNotFound == "ErrNotFound"
ErrResolver == "ErrResolver"
ErrStorage == "ErrStorage"

\* IPCache{}: the zero value.
ZeroIPCache == [IPAddrs |-> <<>>, CreatedAt |-> 0]
IPCache(ipAddrs, createdAt) == [IPAddrs |-> ipAddrs, CreatedAt |-> createdAt]

\* A sync.Map slot: nothing stored, or a pointer to a copy of an IPCache.
NoSlot == [present |-> FALSE, val |-> ZeroIPCache]

\* The resolver's (result, err), before it has been called and after.
NotCalled == [result |-> <<>>, err |-> "notcalled"]
ResolverResults ==
    {[result |-> l, err |-> NoErr] : l \in AddrLists}
        \cup {[result |-> <<>>, err |-> ErrResolver]}

NoRet == [ips |-> <<>>, err |-> "none"]

\* --------------------------------------------------------------- net.IP
\* A net.IP is a sequence of bytes: 4 for the short form of an IPv4 address,
\* 16 for an IPv6 address or the long form of an IPv4 address (::ffff:a.b.c.d).
\* The nil IP is the empty sequence.
IPv4len == 4
IPv6len == 16
v4InV6Prefix == <<0, 0, 0, 0, 0, 0, 0, 0, 0, 0, 255, 255>>

\* net.IPv4(a, b, c, d): the 16-byte form.
IPv4(a, b, c, d) == v4InV6Prefix \o <<a, b, c, d>>

\* The bytes of the addresses the model names: "a" is 1.1.1.1 in its 4-byte
\* form, "b" is 2001:db8::1, "c" is 1.1.1.2 in its 16-byte form.
IPBytes ==
    [a |-> <<1, 1, 1, 1>>,
     b |-> <<32, 1, 13, 184, 0, 0, 0, 0, 0, 0, 0, 0, 0, 0, 0, 1>>,
     c |-> IPv4(1, 1, 1, 2)]

\* ip.To4(): the 4-byte form of an IPv4 address, nil for any other IP.
To4(ip) ==
    IF Len(ip) = IPv4len
    THEN ip
    ELSE IF Len(ip) = IPv6len /\ SubSeq(ip, 1, 12) = v4InV6Prefix
         THEN SubSeq(ip, 13, 16)
         ELSE <<>>

HexDigit == <<"0", "1", "2", "3", "4", "5", "6", "7", "8", "9",
              "a", "b", "c", "d", "e", "f">>

RECURSIVE Hex(_)
Hex(n) ==
    IF n < 16
    THEN HexDigit[n + 1]
    ELSE Hex(n \div 16) \o HexDigit[(n % 16) + 1]

\* The k-th 16-bit group of a 16-byte IP, k in 1..8.
Group(ip, k) == ip[2 * k - 1] * 256 + ip[2 * k]

\* The number of zero groups in a row from group k on.
RECURSIVE ZeroRun(_, _)
ZeroRun(ip, k) ==
    IF k > 8 \/ Group(ip, k) # 0 THEN 0 ELSE 1 + ZeroRun(ip, k + 1)

\* The longest run of zero groups from group k on, or best if none is longer:
\* the first of the longest runs.
RECURSIVE LongestRun(_, _, _)
LongestRun(ip, k, best) ==
    IF k > 8
    THEN best
    ELSE LET n == ZeroRun(ip, k)
         IN  IF n > best.len
             THEN LongestRun(ip, k + n, [start |-> k, len |-> n])
             ELSE LongestRun(ip, k + 1, best)

\* The run of zero groups written as "::": the first of the longest runs, if
\* it has two groups or more; start 0 if there is none.
Compressed(ip) ==
    LET best == LongestRun(ip, 1, [start |-> 0, len |-> 0])
    IN  IF best.len >= 2 THEN best ELSE [start |-> 0, len |-> 0]

\* A text the dial function takes apart is a sequence of pieces: the
\* characters the code looks for (":", "[", "]", ".") are pieces of their own,
\* what stands between them is one piece.  Flat is the text as one string.
RECURSIVE Flat(_)
Flat(text) ==
    IF Len(text) = 0 THEN "" ELSE Head(text) \o Flat(Tail(text))

\* The text of the groups of ip from group k on, with run z written as "::".
RECURSIVE Text16(_, _, _)
Text16(ip, k, z) ==
    IF k > 8
    THEN <<>>
    ELSE IF k = z.start
         THEN <<":", ":">> \o Text16(ip, k + z.len, z)
         ELSE (IF k > 1 /\ k # z.start + z.len THEN <<":">> ELSE <<>>)
                \o <<Hex(Group(ip, k))>> \o Text16(ip, k + 1, z)

\* The pieces of ip.String(): dotted decimal for an IPv4 address in either
\* form, the compressed hexadecimal form for an IPv6 address.
Text(ip) ==
    IF Len(ip) = 0
    THEN <<"<nil>">>
    ELSE IF Len(To4(ip)) = IPv4len
         THEN LET p == To4(ip)
              IN  <<ToString(p[1]), ".", ToString(p[2]), ".",
                    ToString(p[3]), ".", ToString(p[4])>>
         ELSE Text16(ip, 1, Compressed(ip))

\* ip.String()
String(ip) == Flat(Text(ip))

\* The text of each address of a list of named addresses (Lookup's ipAddrs).
IPStrings(ips) == [i \in 1..Len(ips) |-> String(IPBytes[ips[i]])]

\* What has been handed to the OnStats observer: its host and ipAddrs.
StatsCall(host, ips) == [host |-> host, ipAddrs |-> IPStrings(ips)]

\* ------------------------------------------------------- address selection
PolicyFirst == 0
PolicyRandom == 1
PolicyRoundRobin == 2
Policies == {PolicyFirst, PolicyRandom, PolicyRoundRobin}

\* The network argument of the dial function.
Networks == {"tcp", "tcp4", "tcp6", "udp4", "udp6"}

\* The frame of getIP: its arguments, the addresses LookupWithCache returned
\* (ipAddrs), the addresses left after the family filter (candidates) and what
\* it returned (ip, err).  calls is history: the getIP calls made so far.
IdleDial ==
    [pc |-> "idle", network |-> "", host |-> "", ipAddrs |-> <<>>,
     candidates |-> <<>>, ip |-> "", err |-> NoErr, calls |-> 0]

\* The goroutines that select an address at the same time, and the frame of
\* dc.pick: its argument, the value atomic.AddInt32 returned, and what it
\* returned or that it panicked.  n is history: the picks the goroutine made.
Pickers == {"p1", "p2"}
IdlePick ==
    [pc |-> "idle", ipAddrs |-> <<>>, value |-> 0, ip |-> "", panic |-> FALSE,
     n |-> 0]

\* The frame of the dial function: the option it was built with (opts, and
\* retry as read from it), its arguments (addr as pieces), whether getIP called LookupWithCache and whether
\* that called the resolver, what getIP returned, the address to dial (target),
\* the calls of dialer.DialContext made (dialed), and the error returned or a
\* panic.
\* calls is history: the calls of the dial function made.
IdleConn ==
    [pc |-> "idle", opts |-> <<>>, ctx |-> "", network |-> "", addr |-> <<>>,
     retry |-> FALSE,
     lookedUp |-> FALSE, resolved |-> FALSE, ip |-> <<>>, ipErr |-> NoErr,
     target |-> <<>>, dialed |-> <<>>, err |-> NoErr, panic |-> FALSE,
     calls |-> 0]

VARIABLES
    m,        \* mapStorage.m: host -> slot
    TTL,      \* DNSCache.TTL
    Stale,    \* DNSCache.Stale
    now,      \* the wall clock, time.Now()
    frames,   \* caller -> the frame of the call it is in (or has returned from)
    bgs,      \* the refresh goroutines, in the order they were started
    index,    \* DNSCache.index: the round robin counter, an int32
    Policy,   \* DNSCache.Policy
    dial,     \* the frame of the getIP call of the dial function
    picks,    \* goroutine -> the frame of the dc.pick call it is in
    conn      \* the frame of a call of the function GetDialContext returns

\* The state of the resolution engine, and the state address selection adds.
cacheVars == <<m, TTL, Stale, now, frames, bgs>>
dialVars == <<index, Policy, dial, picks, conn>>

vars == <<m, TTL, Stale, now, frames, bgs, index, Policy, dial, picks, conn>>

\* ------------------------------------------------------------------ storage
\* mapStorage_Set that updates the stored entry's addresses in place and keeps
\* its CreatedAt.
mapStorage_Set_InPlace(mm, host, ipCache) ==
    [mm EXCEPT ![host] =
        [present |-> TRUE,
         val |-> IF mm[host].present
                 THEN IPCache(ipCache.IPAddrs, mm[host].val.CreatedAt)
                 ELSE ipCache]]

\* mapStorage_Set that folds the key to lower case (for the keys of the
\* model: "H1" becomes "h1").
mapStorage_Set_FoldsCase(mm, host, ipCache) ==
    [mm EXCEPT ![IF host = "H1" THEN "h1" ELSE host] =
        [present |-> TRUE, val |-> ipCache]]

mapStorage_Set(mm, host, ipCache) ==
    [mm EXCEPT ![host] = [present |-> TRUE, val |-> ipCache]]

\* mapStorage_Delete that empties the host's entry and keeps its key.
mapStorage_Delete_KeepsKey(mm, host) ==
    [mm EXCEPT ![host] = [present |-> TRUE, val |-> ZeroIPCache]]

mapStorage_Delete(mm, host) ==
    [mm EXCEPT ![host] = NoSlot]

\* mapStorage_Get that returns the stored addresses with the zero CreatedAt.
mapStorage_Get_AddrsOnly(mm, host) ==
    IF ~mm[host].present
    THEN [cache |-> ZeroIPCache, err |-> ErrNotFound]
    ELSE [cache |-> IPCache(mm[host].val.IPAddrs, 0), err |-> NoErr]

mapStorage_Get(mm, host) ==
    IF ~mm[host].present
    THEN [cache |-> ZeroIPCache, err |-> ErrNotFound]
    ELSE [cache |-> mm[host].val, err |-> NoErr]

\* Storage is an interface: Set and Get return an error.  mapStorage never
\* fails; a substituted storage may.  A failing call stores and returns nothing.
Storage_Set(mm, host, ipCache, fail) ==
    IF fail
    THEN [m |-> mm, err |-> ErrStorage]
    ELSE [m |-> mapStorage_Set(mm, host, ipCache), err |-> NoErr]

Storage_Get(mm, host, fail) ==
    IF fail
    THEN [cache |-> ZeroIPCache, err |-> ErrStorage]
    ELSE mapStorage_Get(mm, host)

\* ------------------------------------------------------------------- frames
\* A frame: pc, the operation, its host, and the locals of LookupWithCache
\* (ipCache and the error of dc.Get, now), of lookup (res: the resolver's
\* answer), of lookupAndUpdate (set: the IPCache handed to dc.Set, setErr: the
\* error dc.Set returned), the calls of dc.OnStats made (stats) and the values
\* returned (ret).  over is history, not program state: whether a
\* refresh started later has stored an entry for the same host while this one
\* ran.  pc is "idle", "lookupAndUpdate" (LookupWithCache is about to call it),
\* "LookupIP" (inside the resolver), "Set" (about to call dc.Set) or "returned".
IdleFrame ==
    [pc |-> "idle", op |-> "none", host |-> "h1", ipCache |-> ZeroIPCache,
     getErr |-> NoErr, now |-> 0, res |-> NotCalled, set |-> ZeroIPCache,
     setErr |-> NoErr, ret |-> NoRet, stats |-> <<>>, over |-> FALSE]

\* Whether a frame's call has come back to its caller.
Returned(f) == f.pc = "returned"

\* Whether the frame is at a point where the model shows it before it goes on.
Shown(f) == f.pc \in {"returned", "lookupAndUpdate"}

\* ------------------------------------------------------- LookupWithCache
\* Classify with an entry expiring one tick early.
Classify_EarlyExpiry(ipCache, t, ttl, stale) ==
    IF Len(ipCache.IPAddrs) # 0
    THEN IF ipCache.CreatedAt = 0 \/ ipCache.CreatedAt + ttl > t + 1
         THEN "hit"
         ELSE IF stale # 0 /\ ipCache.CreatedAt + ttl + stale > t
              THEN "stale"
              ELSE "miss"
    ELSE "miss"

\* Classify with the fresh window closed at its end (After read as "not before").
Classify_ClosedWindow(ipCache, t, ttl, stale) ==
    IF Len(ipCache.IPAddrs) # 0
    THEN IF ipCache.CreatedAt = 0 \/ ipCache.CreatedAt + ttl >= t
         THEN "hit"
         ELSE IF stale # 0 /\ ipCache.CreatedAt + ttl + stale > t
              THEN "stale"
              ELSE "miss"
    ELSE "miss"

\* Classify with the stale window closed at its end.
Classify_StaleWindowClosed(ipCache, t, ttl, stale) ==
    IF Len(ipCache.IPAddrs) # 0
    THEN IF ipCache.CreatedAt = 0 \/ ipCache.CreatedAt + ttl > t
         THEN "hit"
         ELSE IF stale # 0 /\ ipCache.CreatedAt + ttl + stale >= t
              THEN "stale"
              ELSE "miss"
    ELSE "miss"

\* Classify without the IsZero test.
Classify_NoSentinel(ipCache, t, ttl, stale) ==
    IF Len(ipCache.IPAddrs) # 0
    THEN IF ipCache.CreatedAt + ttl > t
         THEN "hit"
         ELSE IF stale # 0 /\ ipCache.CreatedAt + ttl + stale > t
              THEN "stale"
              ELSE "miss"
    ELSE "miss"

\* The branch LookupWithCache takes on the entry it read: "hit" (isValid by
\* the first test), "stale" (isValid by the second, a goroutine is started),
\* "miss" (falls through to lookupAndUpdate).
Classify(ipCache, t, ttl, stale) ==
    IF Len(ipCache.IPAddrs) # 0
    THEN IF ipCache.CreatedAt = 0 \/ ipCache.CreatedAt + ttl > t
         THEN "hit"
         ELSE IF stale # 0 /\ ipCache.CreatedAt + ttl + stale > t
              THEN "stale"
              ELSE "miss"
    ELSE "miss"

\* The frame of a refresh goroutine that has just been started for h.
NewRefresh(h) ==
    [IdleFrame EXCEPT !.pc = "LookupIP", !.op = "refresh", !.host = h]

\* LookupWithCache_Enter with refreshes coalesced: no goroutine is started
\* while one for the host is running.
LookupWithCache_Enter_Coalesced(g, bb, h, t, ttl, stale) ==
    LET kind == Classify(g.cache, t, ttl, stale)
        f == [IdleFrame EXCEPT !.op = "LookupWithCache", !.host = h,
                               !.ipCache = g.cache, !.getErr = g.err,
                               !.now = IF Len(g.cache.IPAddrs) # 0 THEN t ELSE 0]
        hit == [f EXCEPT !.pc = "returned",
                         !.ret = [ips |-> g.cache.IPAddrs, err |-> NoErr]]
    IN  CASE kind = "hit" -> [frame |-> hit, bgs |-> bb]
          [] kind = "stale" ->
                [frame |-> hit,
                 bgs |-> IF \E i \in 1..Len(bb) : bb[i].host = h
                         THEN bb
                         ELSE Append(bb, NewRefresh(h))]
          [] OTHER -> [frame |-> [f EXCEPT !.pc = "lookupAndUpdate"], bgs |-> bb]

\* LookupWithCache_Enter that resolves in the caller on a stale hit: the call
\* waits for the resolver instead of starting a goroutine.
LookupWithCache_Enter_WaitsForRefresh(g, bb, h, t, ttl, stale) ==
    LET kind == Classify(g.cache, t, ttl, stale)
        f == [IdleFrame EXCEPT !.op = "LookupWithCache", !.host = h,
                               !.ipCache = g.cache, !.getErr = g.err,
                               !.now = IF Len(g.cache.IPAddrs) # 0 THEN t ELSE 0]
        hit == [f EXCEPT !.pc = "returned",
                         !.ret = [ips |-> g.cache.IPAddrs, err |-> NoErr]]
    IN  CASE kind = "hit" -> [frame |-> hit, bgs |-> bb]
          [] OTHER -> [frame |-> [f EXCEPT !.pc = "lookupAndUpdate"], bgs |-> bb]

\* What LookupWithCache does up to its first return or its call of
\* lookupAndUpdate, on the Get result g at time t: the caller's frame, and the
\* goroutines (one more on a stale hit).

LookupWithCache_Enter(g, bb, h, t, ttl, stale) ==
    LET kind == Classify(g.cache, t, ttl, stale)
        f == [IdleFrame EXCEPT !.op = "LookupWithCache", !.host = h,
                               !.ipCache = g.cache, !.getErr = g.err,
                               !.now = IF Len(g.cache.IPAddrs) # 0 THEN t ELSE 0]
        hit == [f EXCEPT !.pc = "returned",
                         !.ret = [ips |-> g.cache.IPAddrs, err |-> NoErr]]
    IN  CASE kind = "hit" -> [frame |-> hit, bgs |-> bb]
          [] kind = "stale" -> [frame |-> hit, bgs |-> Append(bb, NewRefresh(h))]
          [] OTHER -> [frame |-> [f EXCEPT !.pc = "lookupAndUpdate"], bgs |-> bb]

\* ------------------------------------------------------------ lookup, Lookup
\* lookup without the test for an empty result.
lookup_NoEmptyCheck(r) ==
    IF r.err # NoErr
    THEN [ips |-> <<>>, err |-> r.err]
    ELSE [ips |-> r.result, err |-> NoErr]

\* lookup that reports every failure as ErrNotFound.
lookup_MaskErr(r) ==
    IF r.err # NoErr \/ Len(r.result) = 0
    THEN [ips |-> <<>>, err |-> ErrNotFound]
    ELSE [ips |-> r.result, err |-> NoErr]

\* DNSCache.lookup on the resolver's answer r: its (result, err).
lookup(r) ==
    IF r.err # NoErr
    THEN [ips |-> <<>>, err |-> r.err]
    ELSE IF Len(r.result) = 0
         THEN [ips |-> <<>>, err |-> ErrNotFound]
         ELSE [ips |-> r.result, err |-> NoErr]

\* The frame after the resolver has answered r: on success Lookup calls
\* dc.OnStats and returns; inside lookupAndUpdate an error returns and a success
\* goes on to dc.Set.
\* AfterLookupIP in which Lookup goes on to store what it resolved.
AfterLookupIP_LookupStores(f, r) ==
    LET l == lookup(r)
        g == [f EXCEPT !.res = r, !.ret = l,
                       !.stats = IF l.err = NoErr
                                 THEN Append(f.stats, StatsCall(f.host, l.ips))
                                 ELSE f.stats]
    IN  IF l.err # NoErr
        THEN [g EXCEPT !.pc = "returned"]
        ELSE [g EXCEPT !.pc = "Set"]

\* AfterLookupIP in which the observer is called whatever lookup returned.
AfterLookupIP_StatsAlways(f, r) ==
    LET l == lookup(r)
        g == [f EXCEPT !.res = r, !.ret = l,
                       !.stats = Append(f.stats, StatsCall(f.host, l.ips))]
    IN  IF l.err # NoErr \/ f.op = "Lookup"
        THEN [g EXCEPT !.pc = "returned"]
        ELSE [g EXCEPT !.pc = "Set"]

AfterLookupIP(f, r) ==
    LET l == lookup(r)
        g == [f EXCEPT !.res = r, !.ret = l,
                       !.stats = IF l.err = NoErr
                                 THEN Append(f.stats, StatsCall(f.host, l.ips))
                                 ELSE f.stats]
    IN  IF l.err # NoErr \/ f.op = "Lookup"
        THEN [g EXCEPT !.pc = "returned"]
        ELSE [g EXCEPT !.pc = "Set"]

\* ----------------------------------------------------------- lookupAndUpdate
\* The dc.Set call of lookupAndUpdate at time t (or of a user's Set, whose
\* argument is in the frame), and the return that follows it.
\* SetArg with the zero time for CreatedAt.
SetArg_ZeroTime(f, t) ==
    IF f.op = "Set" THEN f.set ELSE IPCache(f.ret.ips, 0)

SetArg(f, t) ==
    IF f.op = "Set" THEN f.set ELSE IPCache(f.ret.ips, t)

\* lookupAndUpdate_Set that returns the addresses without storing them.
lookupAndUpdate_Set_NoStore(mm, f, t, fail) ==
    LET arg == SetArg(f, t)
        s == Storage_Set(mm, f.host, arg, fail)
    IN  [m |-> IF f.op = "Set" THEN s.m ELSE mm,
         frame |-> [f EXCEPT !.pc = "returned", !.set = arg, !.setErr = s.err,
                             !.ret = IF s.err # NoErr
                                     THEN [ips |-> <<>>, err |-> s.err]
                                     ELSE [ips |-> f.ret.ips, err |-> NoErr]]]

\* lookupAndUpdate_Set that returns the addresses whatever dc.Set returned.
lookupAndUpdate_Set_IgnoreErr(mm, f, t, fail) ==
    LET arg == SetArg(f, t)
        s == Storage_Set(mm, f.host, arg, fail)
    IN  [m |-> s.m,
         frame |-> [f EXCEPT !.pc = "returned", !.set = arg, !.setErr = s.err,
                             !.ret = [ips |-> f.ret.ips, err |-> NoErr]]]

\* lookupAndUpdate_Set that drops the host's entry when dc.Set fails.
lookupAndUpdate_Set_DeleteOnFail(mm, f, t, fail) ==
    LET arg == SetArg(f, t)
        s == Storage_Set(mm, f.host, arg, fail)
    IN  [m |-> IF s.err # NoErr THEN mapStorage_Delete(mm, f.host) ELSE s.m,
         frame |-> [f EXCEPT !.pc = "returned", !.set = arg, !.setErr = s.err,
                             !.ret = IF s.err # NoErr
                                     THEN [ips |-> <<>>, err |-> s.err]
                                     ELSE [ips |-> f.ret.ips, err |-> NoErr]]]

lookupAndUpdate_Set(mm, f, t, fail) ==
    LET arg == SetArg(f, t)
        s == Storage_Set(mm, f.host, arg, fail)
    IN  [m |-> s.m,
         frame |-> [f EXCEPT !.pc = "returned", !.set = arg, !.setErr = s.err,
                             !.ret = IF s.err # NoErr
                                     THEN [ips |-> <<>>, err |-> s.err]
                                     ELSE [ips |-> f.ret.ips, err |-> NoErr]]]

\* ------------------------------------------------------------------ actions
Init ==
    /\ m = [h \in Hosts |-> NoSlot]
    /\ TTL \in 0..MaxTTL
    /\ Stale \in 0..MaxStale
    /\ now = 1
    /\ frames = [c \in Callers |-> IdleFrame]
    /\ bgs = <<>>
    /\ index = 0
    /\ Policy = PolicyFirst
    /\ dial = IdleDial
    /\ picks = [p \in Pickers |-> IdlePick]
    /\ conn = IdleConn

\* A call that has returned is seen in the state that follows its return, and
\* then taken by its caller (Collect, BgExit) before anything else happens;
\* so is a LookupWithCache that has read a miss, before it calls the resolver.
Quiet ==
    /\ \A c \in Callers : ~Shown(frames[c])
    /\ \A i \in 1..Len(bgs) : ~Shown(bgs[i])

CanCall(c) == Quiet /\ frames[c].pc = "idle"

\* The calls and goroutines that are inside lookupAndUpdate or Lookup.
InFlight ==
    Cardinality({c \in Callers : frames[c].pc # "idle"}) + Len(bgs)

\* The refresh goroutines after goroutine i has stored ipCache for its host:
\* those started before it for the same host, and still running, are overtaken.
Overtake(bb, i) ==
    [j \in 1..Len(bb) |->
        IF j < i /\ bb[j].host = bb[i].host
        THEN [bb[j] EXCEPT !.over = TRUE]
        ELSE bb[j]]

\* Tick with a storage that drops an entry when its ttl + stale has passed.
Tick_EvictsExpired ==
    /\ Quiet
    /\ now < MaxTime
    /\ now' = now + 1
    /\ m' = [h \in DOMAIN m |->
                IF /\ m[h].present
                   /\ m[h].val.CreatedAt # 0
                   /\ m[h].val.CreatedAt + TTL + Stale <= now + 1
                THEN NoSlot
                ELSE m[h]]
    /\ UNCHANGED <<dialVars, TTL, Stale, frames, bgs>>

\* time passes
Tick ==
    /\ Quiet
    /\ now < MaxTime
    /\ now' = now + 1
    /\ UNCHANGED <<dialVars, m, TTL, Stale, frames, bgs>>

\* LookupWithCache calls lookupAndUpdate, which calls Lookup and the resolver;
\* ipCache, createdAt and now are not read again
EnterLookupAndUpdate(c) ==
    /\ frames[c].pc = "lookupAndUpdate"
    /\ frames' = [frames EXCEPT ![c] =
            [@ EXCEPT !.pc = "LookupIP", !.ipCache = ZeroIPCache, !.now = 0]]
    /\ UNCHANGED <<dialVars, m, TTL, Stale, now, bgs>>

\* dc.Lookup(ctx, host): calls the resolver
CallLookup(c, h) ==
    /\ CanCall(c)
    /\ InFlight < MaxInFlight
    /\ frames' = [frames EXCEPT ![c] =
            [IdleFrame EXCEPT !.pc = "LookupIP", !.op = "Lookup", !.host = h]]
    /\ UNCHANGED <<dialVars, m, TTL, Stale, now, bgs>>

\* dc.LookupWithCache(ctx, host), to its return or its resolver call
CallLookupWithCache(c, h, fail) ==
    /\ CanCall(c)
    /\ LET g == Storage_Get(m, h, fail)
           e == LookupWithCache_Enter(g, bgs, h, now, TTL, Stale)
       IN  /\ (~Returned(e.frame) \/ Len(e.bgs) > Len(bgs)) => InFlight < MaxInFlight
           /\ frames' = [frames EXCEPT ![c] = e.frame]
           /\ bgs' = e.bgs
    /\ UNCHANGED <<dialVars, m, TTL, Stale, now>>

\* dc.Set(ctx, host, ipCache) by a user
CallSet(c, h, ipCache, fail) ==
    /\ CanCall(c)
    /\ LET f == [IdleFrame EXCEPT !.pc = "Set", !.op = "Set", !.host = h,
                                  !.set = ipCache]
           s == lookupAndUpdate_Set(m, f, now, fail)
       IN  /\ m' = s.m
           /\ frames' = [frames EXCEPT ![c] = s.frame]
    /\ UNCHANGED <<dialVars, TTL, Stale, now, bgs>>

\* dc.Delete(ctx, host)
CallDelete(c, h) ==
    /\ CanCall(c)
    /\ m' = mapStorage_Delete(m, h)
    /\ frames' = [frames EXCEPT ![c] =
            [IdleFrame EXCEPT !.pc = "returned", !.op = "Delete", !.host = h,
                              !.ret = [ips |-> <<>>, err |-> NoErr]]]
    /\ UNCHANGED <<dialVars, TTL, Stale, now, bgs>>

\* dc.Get(ctx, host)
CallGet(c, h, fail) ==
    /\ CanCall(c)
    /\ LET g == Storage_Get(m, h, fail)
       IN  frames' = [frames EXCEPT ![c] =
            [IdleFrame EXCEPT !.pc = "returned", !.op = "Get", !.host = h,
                              !.ipCache = g.cache, !.getErr = g.err,
                              !.ret = [ips |-> g.cache.IPAddrs, err |-> g.err]]]
    /\ UNCHANGED <<dialVars, m, TTL, Stale, now, bgs>>

\* ResolverReturn that drops the host's entry when the resolution failed.
ResolverReturn_EvictsOnFailure(c, r) ==
    /\ Quiet
    /\ frames[c].pc = "LookupIP"
    /\ frames' = [frames EXCEPT ![c] = AfterLookupIP(frames[c], r)]
    /\ m' = IF lookup(r).err # NoErr
            THEN mapStorage_Delete(m, frames[c].host)
            ELSE m
    /\ UNCHANGED <<dialVars, TTL, Stale, now, bgs>>

\* the resolver answers a caller
ResolverReturn(c, r) ==
    /\ Quiet
    /\ frames[c].pc = "LookupIP"
    /\ frames' = [frames EXCEPT ![c] = AfterLookupIP(frames[c], r)]
    /\ UNCHANGED <<dialVars, m, TTL, Stale, now, bgs>>

\* a caller's lookupAndUpdate calls dc.Set and returns
SetReturn(c, fail) ==
    /\ Quiet
    /\ frames[c].pc = "Set"
    /\ LET s == lookupAndUpdate_Set(m, frames[c], now, fail)
       IN  /\ m' = s.m
           /\ frames' = [frames EXCEPT ![c] = s.frame]
    /\ UNCHANGED <<dialVars, TTL, Stale, now, bgs>>

\* Collect that cancels the refreshes running when the caller returns.
Collect_CancelsRefreshes(c) ==
    /\ Returned(frames[c])
    /\ frames' = [frames EXCEPT ![c] = IdleFrame]
    /\ bgs' = <<>>
    /\ UNCHANGED <<dialVars, m, TTL, Stale, now>>

\* the caller takes what its call returned
Collect(c) ==
    /\ Returned(frames[c])
    /\ frames' = [frames EXCEPT ![c] = IdleFrame]
    /\ UNCHANGED <<dialVars, m, TTL, Stale, now, bgs>>

\* the resolver answers a refresh goroutine
BgResolverReturn(i, r) ==
    /\ Quiet
    /\ i \in 1..Len(bgs)
    /\ bgs[i].pc = "LookupIP"
    /\ bgs' = [bgs EXCEPT ![i] = AfterLookupIP(bgs[i], r)]
    /\ UNCHANGED <<dialVars, m, TTL, Stale, now, frames>>

\* a refresh goroutine's lookupAndUpdate calls dc.Set and returns
BgSetReturn(i, fail) ==
    /\ Quiet
    /\ i \in 1..Len(bgs)
    /\ bgs[i].pc = "Set"
    /\ LET s == lookupAndUpdate_Set(m, bgs[i], now, fail)
           bb == [bgs EXCEPT ![i] = s.frame]
       IN  /\ m' = s.m
           /\ bgs' = IF s.frame.ret.err = NoErr
                     THEN Overtake(bb, i)
                     ELSE bb
    /\ UNCHANGED <<dialVars, TTL, Stale, now, frames>>

\* a refresh goroutine ends: what its lookupAndUpdate returned is dropped
BgExit(i) ==
    /\ i \in 1..Len(bgs)
    /\ Returned(bgs[i])
    /\ bgs' = [j \in 1..(Len(bgs) - 1) |-> IF j < i THEN bgs[j] ELSE bgs[j + 1]]
    /\ UNCHANGED <<dialVars, m, TTL, Stale, now, frames>>

\* What a user hands to Set: any address list, the zero time or a time.Now()
\* taken earlier.
UserEntries == {IPCache(l, t) : l \in AddrLists, t \in 0..MaxTime}

Next ==
    \/ Tick
    \/ \E c \in Callers, h \in Hosts : CallLookup(c, h)
    \/ \E c \in Callers, h \in Hosts, fail \in BOOLEAN : CallLookupWithCache(c, h, fail)
    \/ \E c \in Callers, h \in Hosts, e \in UserEntries, fail \in BOOLEAN :
            e.CreatedAt <= now /\ CallSet(c, h, e, fail)
    \/ \E c \in Callers, h \in Hosts : CallDelete(c, h)
    \/ \E c \in Callers, h \in Hosts, fail \in BOOLEAN : CallGet(c, h, fail)
    \/ \E c \in Callers, r \in ResolverResults : ResolverReturn(c, r)
    \/ \E c \in Callers, fail \in BOOLEAN : SetReturn(c, fail)
    \/ \E c \in Callers : EnterLookupAndUpdate(c)
    \/ \E c \in Callers : Collect(c)
    \/ \E i \in 1..MaxInFlight, r \in ResolverResults : BgResolverReturn(i, r)
    \/ \E i \in 1..MaxInFlight, fail \in BOOLEAN : BgSetReturn(i, fail)
    \/ \E i \in 1..MaxInFlight : BgExit(i)

Spec == Init /\ [][Next]_vars
\* The cache engine with two hosts whose names differ in letter case only,
\* with ttl and stale fixed, storage that does not fail, and users who set
\* <<"a">> dated now or <<"b", "a">> with the zero time.
CaseHosts == {"h1", "H1"}
CaseEntries(t) == {IPCache(<<"a">>, t), IPCache(<<"b", "a">>, 0)}
CaseResolverResults ==
    {[result |-> <<"a">>, err |-> NoErr], [result |-> <<"b", "a">>, err |-> NoErr],
     [result |-> <<>>, err |-> ErrResolver]}

CaseInit ==
    /\ m = [h \in CaseHosts |-> NoSlot]
    /\ TTL = MaxTTL
    /\ Stale = MaxStale
    /\ now = 1
    /\ frames = [c \in Callers |-> IdleFrame]
    /\ bgs = <<>>
    /\ index = 0
    /\ Policy = PolicyFirst
    /\ dial = IdleDial
    /\ picks = [p \in Pickers |-> IdlePick]
    /\ conn = IdleConn

CaseNext ==
    \/ Tick
    \/ \E c \in Callers, h \in CaseHosts : CallLookup(c, h)
    \/ \E c \in Callers, h \in CaseHosts : CallLookupWithCache(c, h, FALSE)
    \/ \E c \in Callers, h \in CaseHosts, e \in CaseEntries(now) :
            CallSet(c, h, e, FALSE)
    \/ \E c \in Callers, h \in CaseHosts : CallDelete(c, h)
    \/ \E c \in Callers, h \in CaseHosts : CallGet(c, h, FALSE)
    \/ \E c \in Callers, r \in CaseResolverResults : ResolverReturn(c, r)
    \/ \E c \in Callers : SetReturn(c, FALSE)
    \/ \E c \in Callers : EnterLookupAndUpdate(c)
    \/ \E c \in Callers : Collect(c)
    \/ \E i \in 1..MaxInFlight, r \in CaseResolverResults : BgResolverReturn(i, r)
    \/ \E i \in 1..MaxInFlight : BgSetReturn(i, FALSE)
    \/ \E i \in 1..MaxInFlight : BgExit(i)

CaseSpec == CaseInit /\ [][CaseNext]_vars

\* The cache engine with users who also hand entries to Set whose CreatedAt is
\* later than now (a time computed ahead, or the clock of another writer).
CallSetAhead ==
    \E c \in Callers, h \in Hosts, e \in UserEntries, fail \in BOOLEAN :
        e.CreatedAt > now /\ CallSet(c, h, e, fail)

AnyTimeNext == Next \/ CallSetAhead

AnyTimeSpec == Init /\ [][AnyTimeNext]_vars

\* The Go scheduler runs every goroutine that can run, and a resolver call
\* ends (with an answer, or with an error at its context's deadline): a refresh
\* goroutine takes its steps, and a caller goes on from a point it is shown at.
Fairness ==
    /\ \A i \in 1..MaxInFlight :
        /\ SF_vars(\E r \in ResolverResults : BgResolverReturn(i, r))
        /\ SF_vars(\E fail \in BOOLEAN : BgSetReturn(i, fail))
        /\ WF_vars(BgExit(i))
    /\ \A c \in Callers :
        /\ WF_vars(Collect(c))
        /\ WF_vars(EnterLookupAndUpdate(c))

FairSpec == Spec /\ Fairness

\* ------------------------------------------------- getIP: filter and pick
\* getIP calls made in one run of the selection model
MaxPicks == 3

MaxInt32 == 2147483647

\* atomic.AddInt32: the sum, wrapped to 32 bits.
AddInt32(v, d) ==
    IF v > MaxInt32 - d
    THEN ((v - MaxInt32) + (d - 1)) + ((0 - MaxInt32) - 1)
    ELSE v + d

\* Go's a % n for n > 0: the remainder has the sign of a.
GoRem(a, n) == IF a >= 0 \/ a % n = 0 THEN a % n ELSE (a % n) - n

\* The loop of filterIPByLen from item i on, for length # 0.
RECURSIVE filterIPByLen_Loop(_, _, _)
filterIPByLen_Loop(ipAddrs, length, i) ==
    IF i > Len(ipAddrs)
    THEN <<>>
    ELSE LET item == ipAddrs[i]
             rest == filterIPByLen_Loop(ipAddrs, length, i + 1)
         IN  IF Len(item) = length
             THEN <<item>> \o rest
             ELSE IF length # IPv4len
                  THEN rest
                  ELSE IF To4(item) # <<>>
                       THEN <<To4(item)>> \o rest
                       ELSE rest

filterIPByLen(ipAddrs, length) ==
    IF length = 0 THEN ipAddrs ELSE filterIPByLen_Loop(ipAddrs, length, 1)

\* What r.Int() can return, as far as its remainder matters.
RandInts == 0..5

\* pick that takes the last address under PolicyFirst.
pick_Last(ipAddrs, policy, idx, rnd) ==
    LET value == IF policy = PolicyRoundRobin THEN AddInt32(idx, 1) ELSE idx
        i == CASE policy = PolicyRoundRobin -> GoRem(value, Len(ipAddrs))
               [] policy = PolicyRandom -> rnd % Len(ipAddrs)
               [] OTHER -> Len(ipAddrs) - 1
    IN  IF i \in 0..(Len(ipAddrs) - 1)
        THEN [ip |-> String(ipAddrs[i + 1]), text |-> Text(ipAddrs[i + 1]),
              index |-> value, panic |-> FALSE]
        ELSE [ip |-> "", text |-> <<>>, index |-> value, panic |-> TRUE]

\* pick that takes its index under PolicyRandom from the counter too.
pick_RandomCounts(ipAddrs, policy, idx, rnd) ==
    LET value == IF policy # PolicyFirst THEN AddInt32(idx, 1) ELSE idx
        i == CASE policy # PolicyFirst -> GoRem(value, Len(ipAddrs))
               [] OTHER -> 0
    IN  IF i \in 0..(Len(ipAddrs) - 1)
        THEN [ip |-> String(ipAddrs[i + 1]), text |-> Text(ipAddrs[i + 1]),
              index |-> value, panic |-> FALSE]
        ELSE [ip |-> "", text |-> <<>>, index |-> value, panic |-> TRUE]

\* dc.pick on a non-empty list, with dc.Policy, dc.index = idx and rnd what
\* r.Int() returns: the text of the address picked and the new dc.index.  An
\* index outside the list panics.
pick(ipAddrs, policy, idx, rnd) ==
    LET value == IF policy = PolicyRoundRobin THEN AddInt32(idx, 1) ELSE idx
        i == CASE policy = PolicyRoundRobin -> GoRem(value, Len(ipAddrs))
               [] policy = PolicyRandom -> rnd % Len(ipAddrs)
               [] OTHER -> 0
    IN  IF i \in 0..(Len(ipAddrs) - 1)
        THEN [ip |-> String(ipAddrs[i + 1]), text |-> Text(ipAddrs[i + 1]),
              index |-> value, panic |-> FALSE]
        ELSE [ip |-> "", text |-> <<>>, index |-> value, panic |-> TRUE]

\* The switch of getIP on the network.
ipLength(network) ==
    CASE network \in {"tcp4", "udp4"} -> IPv4len
      [] network \in {"tcp6", "udp6"} -> IPv6len
      [] OTHER -> 0

\* getIP_Select that picks among all addresses when the filter leaves none.
getIP_Select_FallsBack(lwc, network, policy, idx, rnd) ==
    IF lwc.err # NoErr
    THEN [ipAddrs |-> <<>>, candidates |-> <<>>, ip |-> "", text |-> <<>>,
          err |-> lwc.err, index |-> idx]
    ELSE LET ipAddrs == [i \in 1..Len(lwc.ips) |-> IPBytes[lwc.ips[i]]]
             filtered == IF ipLength(network) # 0
                         THEN filterIPByLen(ipAddrs, ipLength(network))
                         ELSE ipAddrs
             candidates == IF Len(filtered) = 0 THEN ipAddrs ELSE filtered
             p == pick(candidates, policy, idx, rnd)
         IN  [ipAddrs |-> ipAddrs, candidates |-> filtered, ip |-> p.ip,
              text |-> p.text,
              err |-> IF p.panic THEN "panic" ELSE NoErr, index |-> p.index]

\* getIP for a host name (not an IP literal) after its LookupWithCache has
\* returned lwc: the family filter, the test for no address, and the pick.
getIP_Select(lwc, network, policy, idx, rnd) ==
    IF lwc.err # NoErr
    THEN [ipAddrs |-> <<>>, candidates |-> <<>>, ip |-> "", text |-> <<>>,
          err |-> lwc.err, index |-> idx]
    ELSE LET ipAddrs == [i \in 1..Len(lwc.ips) |-> IPBytes[lwc.ips[i]]]
             candidates == IF ipLength(network) # 0
                           THEN filterIPByLen(ipAddrs, ipLength(network))
                           ELSE ipAddrs
         IN  IF Len(candidates) = 0
             THEN [ipAddrs |-> ipAddrs, candidates |-> candidates, ip |-> "",
                   text |-> <<>>, err |-> ErrNotFound, index |-> idx]
             ELSE LET p == pick(candidates, policy, idx, rnd)
                  IN  [ipAddrs |-> ipAddrs, candidates |-> candidates,
                       ip |-> p.ip, text |-> p.text,
                       err |-> IF p.panic THEN "panic" ELSE NoErr,
                       index |-> p.index]

\* The hosts dialled, and the address lists a user sets for them or the
\* resolver answers with.
DialHosts == {"h1", "h2"}
DialAddrLists ==
    {<<>>, <<"a">>, <<"b">>, <<"c">>, <<"a", "c">>, <<"b", "a">>, <<"c", "b", "a">>}
DialResolverResults ==
    {[result |-> l, err |-> NoErr] : l \in DialAddrLists}
        \cup {[result |-> <<>>, err |-> ErrResolver]}

\* dc.LookupWithCache(ctx, host) run from its call to its return, with r the
\* resolver's answer if it comes to call it: storage after it, the refresh
\* goroutines after it, and what it returned.
LookupWithCache_Run(mm, bb, h, t, ttl, stale, r) ==
    LET e == LookupWithCache_Enter(Storage_Get(mm, h, FALSE), bb, h, t, ttl, stale)
        a == AfterLookupIP([e.frame EXCEPT !.pc = "LookupIP",
                                           !.ipCache = ZeroIPCache, !.now = 0], r)
        s == lookupAndUpdate_Set(mm, a, t, FALSE)
    IN  IF Returned(e.frame)
        THEN [m |-> mm, bgs |-> e.bgs, ret |-> e.frame.ret]
        ELSE IF Returned(a)
             THEN [m |-> mm, bgs |-> e.bgs, ret |-> a.ret]
             ELSE [m |-> s.m, bgs |-> e.bgs, ret |-> s.frame.ret]

\* A DNSCache with a policy, before any call.
DialInit ==
    /\ m = [h \in DialHosts |-> NoSlot]
    /\ TTL = MaxTTL
    /\ Stale = 0
    /\ now = 1
    /\ frames = [c \in Callers |-> IdleFrame]
    /\ bgs = <<>>
    /\ index = 0
    /\ Policy \in Policies
    /\ dial = IdleDial
    /\ picks = [p \in Pickers |-> IdlePick]
    /\ conn = IdleConn

\* dc.Set(ctx, h, IPCache{IPAddrs: l}): an entry with the zero CreatedAt
DialSet(h, l) ==
    /\ dial.pc = "idle"
    /\ m' = Storage_Set(m, h, IPCache(l, 0), FALSE).m
    /\ UNCHANGED <<TTL, Stale, now, frames, bgs, dialVars>>

\* dc.getIP(ctx, network, h), from its call to its return; r is the resolver's
\* answer and rnd what r.Int() returns, each drawn only where it is used
GetIP(network, h, r, rnd) ==
    /\ dial.pc = "idle"
    /\ dial.calls < MaxPicks
    /\ Policy # PolicyRandom => rnd = 0
    /\ Returned(LookupWithCache_Enter(Storage_Get(m, h, FALSE), bgs, h, now,
                                      TTL, Stale).frame)
            => r = [result |-> <<>>, err |-> ErrResolver]
    /\ LET lwc == LookupWithCache_Run(m, bgs, h, now, TTL, Stale, r)
           g == getIP_Select(lwc.ret, network, Policy, index, rnd)
       IN  /\ m' = lwc.m
           /\ bgs' = lwc.bgs
           /\ index' = g.index
           /\ dial' = [pc |-> "returned", network |-> network, host |-> h,
                       ipAddrs |-> g.ipAddrs, candidates |-> g.candidates,
                       ip |-> g.ip, err |-> g.err, calls |-> dial.calls + 1]
    /\ UNCHANGED <<TTL, Stale, now, frames, Policy, picks, conn>>

\* the dial function takes what getIP returned
DialCollect ==
    /\ dial.pc = "returned"
    /\ dial' = [IdleDial EXCEPT !.calls = dial.calls]
    /\ UNCHANGED <<cacheVars, index, Policy, picks, conn>>

DialNext ==
    \/ \E h \in DialHosts, l \in DialAddrLists : DialSet(h, l)
    \/ \E network \in Networks, h \in DialHosts, r \in DialResolverResults,
          rnd \in RandInts : GetIP(network, h, r, rnd)
    \/ DialCollect

DialSpec == DialInit /\ [][DialNext]_vars

\* ------------------------------------------- dc.pick in several goroutines
\* The filtered lists the goroutines pick from.
PickLists ==
    {<<IPBytes.a>>, <<IPBytes.b, IPBytes.a>>, <<IPBytes.c, IPBytes.b, IPBytes.a>>}

\* A DNSCache with PolicyRoundRobin that has made no selection, or as many as
\* bring dc.index next to the largest int32.
RoundRobinInit ==
    /\ m = [h \in DialHosts |-> NoSlot]
    /\ TTL = MaxTTL
    /\ Stale = 0
    /\ now = 1
    /\ frames = [c \in Callers |-> IdleFrame]
    /\ bgs = <<>>
    /\ index \in {0, MaxInt32 - 1}
    /\ Policy = PolicyRoundRobin
    /\ dial = IdleDial
    /\ picks = [p \in Pickers |-> IdlePick]
    /\ conn = IdleConn

\* getIP calls dc.pick(ipAddrs)
PickCall(p, ipAddrs) ==
    /\ picks[p].pc = "idle"
    /\ picks[p].n < MaxPicks
    /\ picks' = [picks EXCEPT ![p] =
            [IdlePick EXCEPT !.pc = "AddInt32", !.ipAddrs = ipAddrs,
                             !.n = picks[p].n + 1]]
    /\ UNCHANGED <<cacheVars, index, Policy, dial, conn>>

\* value := atomic.AddInt32(&dc.index, 1)
PickAdd(p) ==
    /\ picks[p].pc = "AddInt32"
    /\ index' = AddInt32(index, 1)
    /\ picks' = [picks EXCEPT ![p] =
            [@ EXCEPT !.pc = "index", !.value = AddInt32(index, 1)]]
    /\ UNCHANGED <<cacheVars, Policy, dial, conn>>

\* index = int(value) % len(ipAddrs); ip := ipAddrs[index]; return ip.String()
PickIndex(p) ==
    /\ picks[p].pc = "index"
    /\ LET i == GoRem(picks[p].value, Len(picks[p].ipAddrs))
       IN  picks' = [picks EXCEPT ![p] =
                IF i \in 0..(Len(picks[p].ipAddrs) - 1)
                THEN [@ EXCEPT !.pc = "done",
                               !.ip = String(picks[p].ipAddrs[i + 1])]
                ELSE [@ EXCEPT !.pc = "done", !.panic = TRUE]]
    /\ UNCHANGED <<cacheVars, index, Policy, dial, conn>>

\* getIP takes what dc.pick returned
PickReturn(p) ==
    /\ picks[p].pc = "done"
    /\ picks' = [picks EXCEPT ![p] = [IdlePick EXCEPT !.n = picks[p].n]]
    /\ UNCHANGED <<cacheVars, index, Policy, dial, conn>>

RoundRobinNext ==
    \/ \E p \in Pickers, ipAddrs \in PickLists : PickCall(p, ipAddrs)
    \/ \E p \in Pickers : PickAdd(p)
    \/ \E p \in Pickers : PickIndex(p)
    \/ \E p \in Pickers : PickReturn(p)

RoundRobinSpec == RoundRobinInit /\ [][RoundRobinNext]_vars

\* ------------------------------------------ the function of GetDialContext
\* Strings are sequences of pieces; ":", ".", "[" and "]" are pieces of their
\* own, so that the string functions see them where the code looks for them.

\* strings.LastIndex(text, piece): 0-based, -1 when the piece is not there.
LastIndex(text, piece) ==
    IF \E i \in 1..Len(text) : text[i] = piece
    THEN (CHOOSE i \in 1..Len(text) :
            /\ text[i] = piece
            /\ \A j \in (i + 1)..Len(text) : text[j] # piece) - 1
    ELSE 0 - 1

HasPrefix(text, piece) == Len(text) > 0 /\ text[1] = piece
HasSuffix(text, piece) == Len(text) > 0 /\ text[Len(text)] = piece
Contains(text, piece) == \E i \in 1..Len(text) : text[i] = piece

\* net.ParseIP.  A decimal field is a piece that is the text of a byte; a hex
\* field is a piece that is the text of one of the groups the model uses.
GroupValues == {0, 1, 1091, 3512, 8193}

DecValue(piece) ==
    IF \E n \in 0..255 : ToString(n) = piece
    THEN CHOOSE n \in 0..255 : ToString(n) = piece
    ELSE 0 - 1

HexValue(piece) ==
    IF \E v \in GroupValues : Hex(v) = piece
    THEN CHOOSE v \in GroupValues : Hex(v) = piece
    ELSE 0 - 1

\* Four decimal fields with dots between them: the address in 16 bytes.
parseIPv4(text) ==
    IF /\ Len(text) = 7
       /\ \A i \in {2, 4, 6} : text[i] = "."
       /\ \A i \in {1, 3, 5, 7} : DecValue(text[i]) >= 0
    THEN IPv4(DecValue(text[1]), DecValue(text[3]), DecValue(text[5]),
              DecValue(text[7]))
    ELSE <<>>

\* The values of hex fields with colons between them; -1 for what is no field.
RECURSIVE Groups(_)
Groups(text) ==
    IF Len(text) = 0 \/ HexValue(Head(text)) < 0 THEN <<0 - 1>>
    ELSE IF Len(text) = 1 THEN <<HexValue(Head(text))>>
    ELSE IF text[2] # ":" THEN <<0 - 1>>
    ELSE <<HexValue(Head(text))>> \o Groups(SubSeq(text, 3, Len(text)))

GroupBytes(gs) ==
    [i \in 1..IPv6len |->
        IF i % 2 = 1 THEN gs[(i + 1) \div 2] \div 256 ELSE gs[i \div 2] % 256]

\* Eight fields, or fewer with one "::" that stands for at least one zero
\* field.  (A trailing dotted IPv4 part is not modelled.)
parseIPv6(text) ==
    LET e == IF \E i \in 1..(Len(text) - 1) : text[i] = ":" /\ text[i + 1] = ":"
             THEN CHOOSE i \in 1..(Len(text) - 1) :
                    /\ text[i] = ":" /\ text[i + 1] = ":"
                    /\ \A j \in 1..(i - 1) : ~(text[j] = ":" /\ text[j + 1] = ":")
             ELSE 0
        Side(t) == IF Len(t) = 0 THEN <<>> ELSE Groups(t)
        Valid(gs) == \A i \in 1..Len(gs) : gs[i] >= 0
        left == Side(SubSeq(text, 1, e - 1))
        right == Side(SubSeq(text, e + 2, Len(text)))
    IN  IF e = 0
        THEN IF Valid(Groups(text)) /\ Len(Groups(text)) = 8
             THEN GroupBytes(Groups(text))
             ELSE <<>>
        ELSE IF Valid(left) /\ Valid(right) /\ Len(left) + Len(right) <= 7
             THEN GroupBytes(left
                    \o [i \in 1..(8 - Len(left) - Len(right)) |-> 0]
                    \o right)
             ELSE <<>>

\* net.ParseIP(text): nil (the empty sequence) for what is no address.  The
\* first "." or ":" decides which form is tried.
ParseIP(text) ==
    IF \E i \in 1..Len(text) : text[i] \in {".", ":"}
    THEN LET first == CHOOSE i \in 1..Len(text) :
                        /\ text[i] \in {".", ":"}
                        /\ \A j \in 1..(i - 1) : text[j] \notin {".", ":"}
         IN  IF text[first] = "." THEN parseIPv4(text) ELSE parseIPv6(text)
    ELSE <<>>

\* The address literals dialled (one with a zero written out), the keys of
\* storage, the networks and contexts the dial function is called with, and
\* the targets: a name with a port, a target with an empty host, one without
\* a colon, and each literal with a port, bare and in brackets.
Literals ==
    {Text(IPBytes.a), Text(IPBytes.b),
     <<"2001", ":", "db8", ":", "0", ":", ":", "1">>}
AdapterHosts == {"h1", ""} \cup {Flat(l) : l \in Literals}
AdapterNetworks == {"tcp", "tcp4", "tcp6"}
Ctxs == {"ctx1", "ctx2"}
Port == <<":", "443">>
Targets ==
    {<<"h1">> \o Port, Port, <<"h1">>}
        \cup {l \o Port : l \in Literals}
        \cup {<<"[">> \o l \o <<"]">> \o Port : l \in Literals}
AdapterAddrLists == {<<"a">>, <<"b">>, <<"c", "b", "a">>}
AdapterResolverResults ==
    {[result |-> l, err |-> NoErr] : l \in {<<"a">>, <<"b", "a">>}}
        \cup {[result |-> <<>>, err |-> ErrResolver]}
\* What dialer.DialContext returns as its error.
ErrDial == "dial error"
DialResults == {NoErr, ErrDial}

\* calls of the dial function made in one run
MaxDials == 2

\* getIP that sends an address literal through LookupWithCache too.
getIP_ResolvesLiterals(network, host, r, rnd) ==
    LET bracketed == HasPrefix(host, "[") /\ HasSuffix(host, "]")
        h == IF bracketed THEN SubSeq(host, 2, Len(host) - 1) ELSE host
        e == LookupWithCache_Enter(Storage_Get(m, Flat(h), FALSE), bgs,
                                   Flat(h), now, TTL, Stale)
        lwc == LookupWithCache_Run(m, bgs, Flat(h), now, TTL, Stale, r)
        g == getIP_Select(lwc.ret, network, Policy, index, rnd)
    IN  [ip |-> g.text, err |-> g.err, lookedUp |-> TRUE,
         resolved |-> ~Returned(e.frame), m |-> lwc.m, bgs |-> lwc.bgs,
         index |-> g.index]

\* getIP in this state for a host given as pieces, with r the resolver's
\* answer and rnd what r.Int() returns: the address (as pieces) and error it
\* returns, whether it called LookupWithCache and whether that called the
\* resolver, and storage, refreshes and dc.index after it.
getIP(network, host, r, rnd) ==
    LET bracketed == HasPrefix(host, "[") /\ HasSuffix(host, "]")
        h == IF bracketed THEN SubSeq(host, 2, Len(host) - 1) ELSE host
        e == LookupWithCache_Enter(Storage_Get(m, Flat(h), FALSE), bgs,
                                   Flat(h), now, TTL, Stale)
        lwc == LookupWithCache_Run(m, bgs, Flat(h), now, TTL, Stale, r)
        g == getIP_Select(lwc.ret, network, Policy, index, rnd)
    IN  IF Len(ParseIP(h)) # 0
        THEN [ip |-> h, err |-> NoErr, lookedUp |-> FALSE,
              resolved |-> FALSE, m |-> m, bgs |-> bgs, index |-> index]
        ELSE [ip |-> g.text, err |-> g.err, lookedUp |-> TRUE,
              resolved |-> ~Returned(e.frame), m |-> lwc.m, bgs |-> lwc.bgs,
              index |-> g.index]

\* RetryOption that turns the fallback on when the option is absent.
RetryOption_DefaultTrue(retryDialIfCacheFail) ==
    IF Len(retryDialIfCacheFail) # 0 THEN retryDialIfCacheFail[1] ELSE TRUE

\* retry as GetDialContext(retryDialIfCacheFail...) sets it.
RetryOption(retryDialIfCacheFail) ==
    IF Len(retryDialIfCacheFail) # 0 THEN retryDialIfCacheFail[1] ELSE FALSE

\* dialAddr that never adds brackets, and dialAddr that always does.
dialAddr_NoBrackets(ip, addr, sepIndex) ==
    ip \o SubSeq(addr, sepIndex + 1, Len(addr))

dialAddr_BracketsAll(ip, addr, sepIndex) ==
    <<"[">> \o ip \o <<"]">> \o SubSeq(addr, sepIndex + 1, Len(addr))

\* The address dialled after getIP returned ip: brackets around an address
\* with a colon, then addr from sepIndex on.
dialAddr(ip, addr, sepIndex) ==
    (IF Contains(ip, ":") THEN <<"[">> \o ip \o <<"]">> ELSE ip)
        \o SubSeq(addr, sepIndex + 1, Len(addr))

\* A DNSCache with a policy, before any call.
AdapterInit ==
    /\ m = [h \in AdapterHosts |-> NoSlot]
    /\ TTL = MaxTTL
    /\ Stale = 0
    /\ now = 1
    /\ frames = [c \in Callers |-> IdleFrame]
    /\ bgs = <<>>
    /\ index = 0
    /\ Policy \in Policies
    /\ dial = IdleDial
    /\ picks = [p \in Pickers |-> IdlePick]
    /\ conn = IdleConn

\* dc.Set(ctx, "h1", IPCache{IPAddrs: l}): an entry with the zero CreatedAt
AdapterSet(l) ==
    /\ conn.pc = "idle"
    /\ m' = Storage_Set(m, "h1", IPCache(l, 0), FALSE).m
    /\ UNCHANGED <<TTL, Stale, now, frames, bgs, dialVars>>

\* dc.GetDialContext(opts...)(ctx, network, addr) is called: the separator
\* is looked for and the host cut off; without a separator addr[:-1] panics
DialContext_Call(opts, ctx, network, addr) ==
    LET call == [IdleConn EXCEPT !.opts = opts, !.ctx = ctx,
                                 !.network = network, !.addr = addr,
                                 !.retry = RetryOption(opts),
                                 !.calls = conn.calls + 1]
    IN  /\ conn.pc = "idle"
        /\ conn.calls < MaxDials
        /\ conn' = IF LastIndex(addr, ":") < 0
                   THEN [call EXCEPT !.pc = "returned", !.panic = TRUE]
                   ELSE [call EXCEPT !.pc = "getIP"]
        /\ UNCHANGED <<cacheVars, index, Policy, dial, picks>>

\* ip, err := dc.getIP(ctx, network, host) and what follows it up to the call
\* of the dialer; r is the resolver's answer and rnd what r.Int() returns,
\* each drawn only where it is used
DialContext_GetIP(r, rnd) ==
    /\ conn.pc = "getIP"
    /\ \E sepIndex \in {LastIndex(conn.addr, ":")} :
       \E g \in {getIP(conn.network, SubSeq(conn.addr, 1, sepIndex), r, rnd)} :
       \E got \in {[conn EXCEPT !.lookedUp = g.lookedUp,
                                !.resolved = g.resolved,
                                !.ip = g.ip, !.ipErr = g.err]} :
        /\ ~g.resolved => r = [result |-> <<>>, err |-> ErrResolver]
        /\ ~(g.lookedUp /\ Policy = PolicyRandom) => rnd = 0
        /\ m' = g.m
        /\ bgs' = g.bgs
        /\ index' = g.index
        /\ conn' =
            IF g.err = "panic"
            THEN [got EXCEPT !.pc = "returned", !.panic = TRUE]
            ELSE IF g.err # NoErr
            THEN IF conn.retry
                 THEN [got EXCEPT !.pc = "dial", !.target = conn.addr]
                 ELSE [got EXCEPT !.pc = "returned", !.err = g.err]
            ELSE [got EXCEPT !.pc = "dial",
                             !.target = dialAddr(g.ip, conn.addr, sepIndex)]
    /\ UNCHANGED <<TTL, Stale, now, frames, Policy, dial, picks>>

\* return dialer.DialContext(ctx, network, addr); d is the error it returns
DialContext_Dial(d) ==
    /\ conn.pc = "dial"
    /\ conn' = [conn EXCEPT
            !.pc = "returned",
            !.dialed = Append(conn.dialed,
                              [ctx |-> conn.ctx, network |-> conn.network,
                               addr |-> conn.target]),
            !.err = d]
    /\ UNCHANGED <<cacheVars, index, Policy, dial, picks>>

\* the caller takes what the dial function returned
ConnCollect ==
    /\ conn.pc = "returned"
    /\ conn' = [IdleConn EXCEPT !.calls = conn.calls]
    /\ UNCHANGED <<cacheVars, index, Policy, dial, picks>>

AdapterNext ==
    \/ \E l \in AdapterAddrLists : AdapterSet(l)
    \/ \E opts \in {<<>>, <<TRUE>>, <<FALSE>>}, ctx \in Ctxs,
          network \in AdapterNetworks, addr \in Targets :
            DialContext_Call(opts, ctx, network, addr)
    \/ \E r \in AdapterResolverResults, rnd \in RandInts :
            DialContext_GetIP(r, rnd)
    \/ \E d \in DialResults : DialContext_Dial(d)
    \/ ConnCollect

AdapterSpec == AdapterInit /\ [][AdapterNext]_vars

\* ------------------------------------------------------------------ claims
\* An entry with addresses and a real (non-zero) CreatedAt.
TimeBounded(e) == Len(e.IPAddrs) # 0 /\ e.CreatedAt # 0

\* An entry with addresses and the zero CreatedAt.
Permanent(e) == Len(e.IPAddrs) # 0 /\ e.CreatedAt = 0

\* What the LookupWithCache of frame f read, by the words of the claims.
FreshRead(f) ==
    /\ TimeBounded(f.ipCache)
    /\ f.now < f.ipCache.CreatedAt + TTL

StaleRead(f) ==
    /\ TimeBounded(f.ipCache)
    /\ Stale > 0
    /\ f.ipCache.CreatedAt + TTL <= f.now
    /\ f.now < f.ipCache.CreatedAt + TTL + Stale

ExpiredRead(f) ==
    /\ TimeBounded(f.ipCache)
    /\ f.now >= f.ipCache.CreatedAt + TTL + Stale

IsLWC(f) == f.op = "LookupWithCache"

\* The step in which caller c calls LookupWithCache.
LWCStep(c) == frames[c].pc = "idle" /\ IsLWC(frames'[c])

\* In that step the call returned the addresses it read, without a resolver
\* call of its own, and nothing else changed.
ServedFromCacheOnly(c) ==
    /\ Returned(frames'[c])
    /\ frames'[c].ret = [ips |-> frames'[c].ipCache.IPAddrs, err |-> NoErr]
    /\ frames'[c].res = NotCalled
    /\ bgs' = bgs
    /\ m' = m

\* C1: a LookupWithCache that reads a time-bounded entry with
\* now < createdAt + ttl returns exactly the stored addresses, invokes no
\* resolver (its own or a goroutine's) and leaves storage unchanged.
C1_FreshHit ==
    [][\A c \in Callers :
        (LWCStep(c) /\ FreshRead(frames'[c])) => ServedFromCacheOnly(c)]_vars

C1_Witness ==
    \E c \in Callers :
        /\ Returned(frames[c]) /\ IsLWC(frames[c]) /\ FreshRead(frames[c])
        /\ frames[c].ret.ips = <<"b", "a">>
        /\ m[frames[c].host].val = frames[c].ipCache

\* C2: with stale > 0 a LookupWithCache that reads an entry in the stale
\* window returns the old addresses and starts exactly one refresh goroutine
\* for the host, whether or not refreshes of that host are already running.
C2_StaleHitStartsOneRefresh ==
    [][\A c \in Callers :
        (LWCStep(c) /\ StaleRead(frames'[c])) =>
            /\ Returned(frames'[c])
            /\ frames'[c].ret = [ips |-> frames'[c].ipCache.IPAddrs, err |-> NoErr]
            /\ frames'[c].res = NotCalled
            /\ m' = m
            /\ Len(bgs') = Len(bgs) + 1
            /\ SubSeq(bgs', 1, Len(bgs)) = bgs
            /\ bgs'[Len(bgs')].host = frames'[c].host
            /\ bgs'[Len(bgs')].op = "refresh"
            /\ bgs'[Len(bgs')].pc = "LookupIP"]_vars

\* Two stale hits in a row: two refreshes of the same host are running.
C2_Witness ==
    \E c \in Callers :
        /\ Returned(frames[c]) /\ IsLWC(frames[c]) /\ StaleRead(frames[c])
        /\ Len(bgs) = 2
        /\ bgs[1].host = frames[c].host /\ bgs[1].op = "refresh"
        /\ bgs[2].host = frames[c].host /\ bgs[2].pc = "LookupIP"

\* The frame a LookupWithCache(h) called in this state, with a storage read
\* that works, has at its return or at its call of lookupAndUpdate.
LWCNow(h) ==
    LookupWithCache_Enter(Storage_Get(m, h, FALSE), bgs, h, now, TTL, Stale).frame

\* A refresh goroutine whose lookupAndUpdate has just returned without error.
Refreshed(f) == f.op = "refresh" /\ Returned(f) /\ f.ret.err = NoErr

\* C3 as written: once a refresh has resolved and stored, storage holds the
\* new addresses and a LookupWithCache of the host is a fresh hit on them.
C3_Original ==
    \A i \in 1..Len(bgs) :
        Refreshed(bgs[i]) =>
            /\ m[bgs[i].host].present
            /\ m[bgs[i].host].val.IPAddrs = bgs[i].res.result
            /\ LET f == LWCNow(bgs[i].host)
               IN  /\ Returned(f)
                   /\ f.ret = [ips |-> bgs[i].res.result, err |-> NoErr]
                   /\ FreshRead(f)

\* C3, amended: every running refresh goroutine comes to its return (under
\* Fairness); when it returns without error storage holds the resolved
\* addresses with createdAt the time of the write; and with ttl > 0 a
\* LookupWithCache of a host whose stored entry is time-bounded and younger
\* than ttl (so the one just written) is a fresh hit on that entry.
C3_RefreshedThenFresh ==
    /\ [](\A i \in 1..Len(bgs) :
            Refreshed(bgs[i]) =>
                /\ Len(bgs[i].res.result) # 0
                /\ m[bgs[i].host] =
                        [present |-> TRUE, val |-> IPCache(bgs[i].res.result, now)]
                /\ TTL > 0 =>
                        /\ Returned(LWCNow(bgs[i].host))
                        /\ LWCNow(bgs[i].host).ret.ips = bgs[i].res.result)
    /\ [](\A h \in Hosts :
            (m[h].present /\ TimeBounded(m[h].val) /\ now < m[h].val.CreatedAt + TTL) =>
                /\ Returned(LWCNow(h))
                /\ LWCNow(h).ret = [ips |-> m[h].val.IPAddrs, err |-> NoErr]
                /\ LWCNow(h).res = NotCalled)
    /\ [](bgs # <<>> => <>(bgs # <<>> /\ Returned(bgs[1])))

\* A refresh has stored <<"b", "a">> over an entry that held <<"a">>, and a
\* LookupWithCache now returns the new addresses from the cache.
C3_Witness ==
    \E i \in 1..Len(bgs) :
        /\ Refreshed(bgs[i])
        /\ bgs[i].res.result = <<"b", "a">>
        /\ m[bgs[i].host].val = IPCache(<<"b", "a">>, now)
        /\ TTL > 0
        /\ Returned(LWCNow(bgs[i].host))
        /\ LWCNow(bgs[i].host).ret.ips = <<"b", "a">>

\* A LookupWithCache frame at the point where it has read and classified the
\* entry: returned from the cache, or about to call lookupAndUpdate.
Decided(f) == IsLWC(f) /\ Shown(f) /\ f.res = NotCalled

\* A LookupWithCache frame that has returned through lookupAndUpdate.
ReturnedSync(f) == IsLWC(f) /\ Returned(f) /\ f.res # NotCalled

\* C4: with stale = 0 a LookupWithCache that reads a time-bounded entry with
\* now >= createdAt + ttl goes to the synchronous resolution; what a call
\* returns from the cache is permanent or younger than ttl, and what it returns
\* after a resolution is the resolver's answer.
C4_ExpiredNoStaleResolves ==
    Stale = 0 =>
        \A c \in Callers :
            LET f == frames[c]
            IN  /\ (Decided(f) /\ ExpiredRead(f)) => f.pc = "lookupAndUpdate"
                /\ (Decided(f) /\ Returned(f)) =>
                        \/ Permanent(f.ipCache)
                        \/ f.now < f.ipCache.CreatedAt + TTL
                /\ (ReturnedSync(f) /\ f.ret.err = NoErr) =>
                        f.res.err = NoErr /\ f.ret.ips = f.res.result

\* An entry read exactly at createdAt + ttl, with stale = 0: the call is on
\* its way to the resolver.
C4_Witness ==
    /\ Stale = 0
    /\ TTL > 0
    /\ \E c \in Callers :
        /\ Decided(frames[c])
        /\ frames[c].pc = "lookupAndUpdate"
        /\ TimeBounded(frames[c].ipCache)
        /\ frames[c].now = frames[c].ipCache.CreatedAt + TTL

\* What frame f read is a miss: no entry, an entry without addresses, or an
\* entry of age >= ttl + stale.
MissRead(f) ==
    \/ f.getErr = ErrNotFound
    \/ (f.getErr = NoErr /\ Len(f.ipCache.IPAddrs) = 0)
    \/ ExpiredRead(f)

\* C5: a LookupWithCache that reads a miss calls lookupAndUpdate (one
\* resolver call, not yet made when it is shown); when that returns without
\* error the addresses returned are the resolver's, storage holds them with
\* createdAt = now, and for ttl > 0 a LookupWithCache called next is a fresh hit
\* on them.
C5_MissResolvesAndStores ==
    \A c \in Callers :
        LET f == frames[c]
        IN  /\ (Decided(f) /\ MissRead(f)) => f.pc = "lookupAndUpdate"
            /\ (IsLWC(f) /\ f.pc \in {"Set", "returned"} /\ ~Decided(f)) =>
                    f.res \in ResolverResults
            /\ (ReturnedSync(f) /\ f.ret.err = NoErr) =>
                    /\ f.res.err = NoErr
                    /\ f.ret.ips = f.res.result
                    /\ m[f.host] = [present |-> TRUE, val |-> IPCache(f.ret.ips, now)]
                    /\ TTL > 0 =>
                            /\ Returned(LWCNow(f.host))
                            /\ LWCNow(f.host).ret = [ips |-> f.ret.ips, err |-> NoErr]
                            /\ LWCNow(f.host).res = NotCalled
                            /\ FreshRead(LWCNow(f.host))

\* A LookupWithCache of an absent host has resolved, stored and returned.
C5_Witness ==
    \E c \in Callers :
        /\ ReturnedSync(frames[c])
        /\ frames[c].getErr = ErrNotFound
        /\ frames[c].ret = [ips |-> <<"b", "a">>, err |-> NoErr]
        /\ TTL > 0
        /\ FreshRead(LWCNow(frames[c].host))

C7_ErrorOrNonEmpty ==
    \A c \in Callers :
        (Returned(frames[c]) /\ frames[c].op \in {"Lookup", "LookupWithCache"}) =>
            \/ frames[c].ret.err # NoErr
            \/ Len(frames[c].ret.ips) # 0

\* The resolver answered with no address and no error: the call returned
\* ErrNotFound.
C7_Witness ==
    \E c \in Callers :
        /\ Returned(frames[c])
        /\ IsLWC(frames[c])
        /\ frames[c].res = [result |-> <<>>, err |-> NoErr]
        /\ frames[c].ret = [ips |-> <<>>, err |-> ErrNotFound]

\* The step in which refresh goroutine i comes to the return of its
\* lookupAndUpdate.
BgReturnStep(i) ==
    /\ i \in 1..Len(bgs)
    /\ ~Returned(bgs[i])
    /\ Len(bgs') = Len(bgs)
    /\ Returned(bgs'[i])

\* C8: the step in which a refresh goroutine fails (resolver error, no
\* address, or dc.Set error) changes neither storage nor any caller's frame.
C8_RefreshFailureDropped ==
    [][\A i \in 1..MaxInFlight :
        (BgReturnStep(i) /\ bgs'[i].ret.err # NoErr) =>
            /\ m' = m
            /\ frames' = frames]_vars

\* A refresh has failed at dc.Set; the entry is still there, in its stale
\* window, and a LookupWithCache still returns it.
C8_Witness ==
    \E i \in 1..Len(bgs) :
        LET h == bgs[i].host
        IN  /\ Returned(bgs[i])
            /\ bgs[i].setErr = ErrStorage
            /\ m[h].present
            /\ TimeBounded(m[h].val)
            /\ Stale > 0
            /\ m[h].val.CreatedAt + TTL <= now
            /\ now < m[h].val.CreatedAt + TTL + Stale
            /\ LWCNow(h).ret = [ips |-> m[h].val.IPAddrs, err |-> NoErr]

\* C9 as written: a LookupWithCache whose storage read or storage write failed
\* returns an error; a goroutine's storage error reaches no caller.
C9_Original ==
    /\ \A c \in Callers :
        (IsLWC(frames[c]) /\ Returned(frames[c])
            /\ (frames[c].getErr = ErrStorage \/ frames[c].setErr # NoErr)) =>
                frames[c].ret.err # NoErr
    /\ \A i \in 1..Len(bgs) :
        (Returned(bgs[i]) /\ bgs[i].setErr # NoErr) =>
            \A c \in Callers : ~Returned(frames[c])

\* C9, amended: a failed dc.Set on the synchronous path is returned to the
\* caller as the error; a failed dc.Get is not: the call goes on as for a miss
\* and returns what lookupAndUpdate returns; a goroutine's failure changes no
\* caller's frame.
C9_WriteErrorSurfacedReadErrorNot ==
    /\ [](\A c \in Callers :
            LET f == frames[c]
            IN  /\ (IsLWC(f) /\ Returned(f) /\ f.setErr # NoErr) =>
                        f.ret = [ips |-> <<>>, err |-> f.setErr]
                /\ (Decided(f) /\ f.getErr = ErrStorage) => f.pc = "lookupAndUpdate"
                /\ (ReturnedSync(f) /\ f.getErr = ErrStorage /\ f.setErr = NoErr
                        /\ f.res.err = NoErr /\ Len(f.res.result) # 0) =>
                        f.ret = [ips |-> f.res.result, err |-> NoErr])
    /\ [][\A i \in 1..MaxInFlight :
            (BgReturnStep(i) /\ bgs'[i].ret.err # NoErr) => frames' = frames]_vars

\* The read failed and then the write failed: the caller got the write's error.
C9_Witness ==
    \E c \in Callers :
        /\ ReturnedSync(frames[c])
        /\ frames[c].getErr = ErrStorage
        /\ frames[c].setErr = ErrStorage
        /\ frames[c].ret = [ips |-> <<>>, err |-> ErrStorage]

\* dc.Set was called in frame f, which has returned.
CalledSet(f) ==
    /\ Returned(f)
    /\ \/ f.op = "Set"
       \/ (f.op \in {"LookupWithCache", "refresh"}
            /\ f.res.err = NoErr /\ Len(f.res.result) # 0)

\* The frames that come to their return in this step.
CallerReturnStep(c) == ~Returned(frames[c]) /\ Returned(frames'[c])

\* C10: storage changes only by a Delete or by a dc.Set that succeeded, and
\* after a dc.Set that succeeded the host's slot is exactly the IPCache that
\* call was given (for a refresh: the resolver's addresses with the time of the
\* call), whatever was stored and whichever refresh was started first; a Get
\* returns the slot's entry whole.
C10_WholeEntryLastWriteWins ==
    [][/\ \A h \in Hosts :
            m'[h] # m[h] =>
                \/ \E c \in Callers :
                    /\ CallerReturnStep(c) /\ frames'[c].host = h
                    /\ \/ frames'[c].op = "Delete" /\ m'[h] = NoSlot
                       \/ CalledSet(frames'[c]) /\ frames'[c].setErr = NoErr
                \/ \E i \in 1..MaxInFlight :
                    /\ BgReturnStep(i) /\ bgs'[i].host = h
                    /\ CalledSet(bgs'[i]) /\ bgs'[i].setErr = NoErr
       /\ \A c \in Callers :
            (CallerReturnStep(c) /\ CalledSet(frames'[c]) /\ frames'[c].setErr = NoErr) =>
                /\ m'[frames'[c].host] = [present |-> TRUE, val |-> frames'[c].set]
                /\ frames'[c].op # "Set" =>
                        frames'[c].set = IPCache(frames'[c].res.result, now)
       /\ \A c \in Callers :
            (CallerReturnStep(c) /\ frames'[c].op = "Get" /\ frames'[c].getErr = NoErr) =>
                /\ m[frames'[c].host].present
                /\ frames'[c].ipCache = m[frames'[c].host].val
       /\ \A i \in 1..MaxInFlight :
            (BgReturnStep(i) /\ CalledSet(bgs'[i]) /\ bgs'[i].setErr = NoErr) =>
                /\ m'[bgs'[i].host] = [present |-> TRUE, val |-> bgs'[i].set]
                /\ bgs'[i].set = IPCache(bgs'[i].res.result, now)]_vars

\* The refresh that was started first has stored last: a refresh started after
\* it had already stored another entry, and the slot holds the first one's.
C10_Witness ==
    \E i \in 1..Len(bgs) :
        /\ Refreshed(bgs[i])
        /\ bgs[i].over
        /\ m[bgs[i].host] = [present |-> TRUE, val |-> bgs[i].set]
        /\ bgs[i].set.IPAddrs = <<"a">>

\* C11: a LookupWithCache that reads an entry in the stale window has returned
\* in the step of its storage read, with no resolver answer of its own; the
\* caller can take the result whatever the refresh goroutines are doing, and
\* the goroutine it started is then still inside the resolver.
C11_StaleHitDoesNotBlock ==
    /\ [](\A c \in Callers :
            (Decided(frames[c]) /\ StaleRead(frames[c])) =>
                /\ Returned(frames[c])
                /\ frames[c].res = NotCalled
                /\ ENABLED Collect(c))
    /\ [][\A c \in Callers :
            (LWCStep(c) /\ StaleRead(frames'[c])) =>
                /\ Returned(frames'[c])
                /\ bgs'[Len(bgs')].pc = "LookupIP"
                /\ bgs'[Len(bgs')].res = NotCalled]_vars

\* A stale hit has returned while the refresh of an earlier stale hit, whose
\* caller has long gone on, is still waiting for the resolver.
C11_Witness ==
    \E c \in Callers :
        /\ Returned(frames[c]) /\ IsLWC(frames[c]) /\ StaleRead(frames[c])
        /\ frames[c].res = NotCalled
        /\ Len(bgs) = 2
        /\ \A i \in 1..2 : bgs[i].pc = "LookupIP" /\ bgs[i].res = NotCalled
        /\ ENABLED Collect(c)

\* The step in which caller c's call of operation op comes to its return.
OpReturnStep(c, op) == CallerReturnStep(c) /\ frames'[c].op = op

\* The steps that execute a set, a delete or the store of a resolution
\* (lookupAndUpdate, in a caller or in a refresh goroutine) for host h.
WritesHost(h) ==
    \/ \E c \in Callers :
            /\ CallerReturnStep(c)
            /\ frames'[c].host = h
            /\ \/ frames'[c].op = "Delete"
               \/ CalledSet(frames'[c])
    \/ \E i \in 1..MaxInFlight :
            BgReturnStep(i) /\ bgs'[i].host = h /\ CalledSet(bgs'[i])

\* C12: after a Set(h, e) that succeeded a Get(h) returns exactly e, with its
\* address sequence and its CreatedAt, until a later Set, a store of a
\* resolution of h or a Delete(h) is executed: the Set leaves e in h's slot,
\* the slot changes in no other step, and a Get returns the slot's entry.
C12_SetGetRoundTrip ==
    [][/\ \A c \in Callers :
            (OpReturnStep(c, "Set") /\ frames'[c].setErr = NoErr) =>
                mapStorage_Get(m', frames'[c].host) =
                    [cache |-> frames'[c].set, err |-> NoErr]
       /\ \A h \in Hosts : m'[h] # m[h] => WritesHost(h)
       /\ \A c \in Callers :
            (OpReturnStep(c, "Get") /\ frames'[c].getErr # ErrStorage) =>
                /\ m' = m
                /\ m[frames'[c].host].present =>
                        /\ frames'[c].ipCache = m[frames'[c].host].val
                        /\ frames'[c].ret =
                                [ips |-> m[frames'[c].host].val.IPAddrs, err |-> NoErr]]_vars

\* A Get has returned an entry that only a Set can have stored (two addresses,
\* the zero CreatedAt), after time has passed.
C12_Witness ==
    \E c \in Callers :
        /\ Returned(frames[c])
        /\ frames[c].op = "Get"
        /\ frames[c].getErr = NoErr
        /\ frames[c].ipCache = IPCache(<<"b", "a">>, 0)
        /\ now > 1

\* C13: a Delete(h) returns no error whether or not h has an entry; when h
\* has none it changes nothing; after it, and for as long as no Set and no
\* store of a resolution of h succeeds, h has no entry, and a Get(h) of a host
\* without entry returns ErrNotFound.
C13_DeleteThenNotFound ==
    [][/\ \A c \in Callers :
            OpReturnStep(c, "Delete") =>
                LET h == frames'[c].host
                IN  /\ frames'[c].ret.err = NoErr
                    /\ ~m[h].present => m' = m
                    /\ \A g \in Hosts \ {h} : m'[g] = m[g]
                    /\ mapStorage_Get(m', h) = [cache |-> ZeroIPCache, err |-> ErrNotFound]
       /\ \A h \in Hosts :
            (~m[h].present /\ m'[h].present) =>
                \/ \E c \in Callers :
                        /\ CallerReturnStep(c) /\ frames'[c].host = h
                        /\ CalledSet(frames'[c]) /\ frames'[c].setErr = NoErr
                \/ \E i \in 1..MaxInFlight :
                        /\ BgReturnStep(i) /\ bgs'[i].host = h
                        /\ CalledSet(bgs'[i]) /\ bgs'[i].setErr = NoErr
       /\ \A c \in Callers :
            (OpReturnStep(c, "Get") /\ frames'[c].getErr # ErrStorage
                /\ ~m[frames'[c].host].present) =>
                    frames'[c].ret = [ips |-> <<>>, err |-> ErrNotFound]]_vars

\* A Get has returned ErrNotFound while a refresh of the host is running: the
\* host had an entry (a stale hit started the refresh) and a Delete removed it.
C13_Witness ==
    \E c \in Callers :
        /\ Returned(frames[c])
        /\ frames[c].op = "Get"
        /\ frames[c].ret = [ips |-> <<>>, err |-> ErrNotFound]
        /\ \E i \in 1..Len(bgs) :
                bgs[i].host = frames[c].host /\ bgs[i].pc = "LookupIP"

\* C14: a Lookup calls the resolver once, whatever storage holds for the host,
\* and neither reads nor writes storage: its frame goes from the call into the
\* resolver, from the resolver's one answer to the return, and from there back
\* to the caller; storage is the same after each of these steps and nothing
\* read from it is in the frame.
C14_LookupResolvesOnceNoStorage ==
    [][\A c \in Callers :
        ((frames[c].op = "Lookup" \/ frames'[c].op = "Lookup")
            /\ frames'[c] # frames[c]) =>
                /\ m' = m
                /\ frames'[c].ipCache = ZeroIPCache
                /\ frames'[c].getErr = NoErr
                /\ frames'[c].set = ZeroIPCache
                /\ \/ /\ frames[c].pc = "idle"
                      /\ frames'[c].pc = "LookupIP"
                      /\ frames'[c].res = NotCalled
                   \/ /\ frames[c].pc = "LookupIP"
                      /\ frames[c].res = NotCalled
                      /\ Returned(frames'[c])
                      /\ frames'[c].res \in ResolverResults
                   \/ /\ Returned(frames[c])
                      /\ frames'[c] = IdleFrame]_vars

\* A Lookup has returned the resolver's two addresses for a host whose stored
\* entry is permanent and holds one address: storage still holds that entry.
C14_Witness ==
    \E c \in Callers :
        /\ Returned(frames[c])
        /\ frames[c].op = "Lookup"
        /\ frames[c].ret = [ips |-> <<"b", "a">>, err |-> NoErr]
        /\ m[frames[c].host] = [present |-> TRUE, val |-> IPCache(<<"a">>, 0)]

\* C15: a Lookup whose resolver call returned an error returns that error,
\* one whose resolver call returned no address and no error returns
\* ErrNotFound, and both return no addresses.
C15_LookupErrors ==
    \A c \in Callers :
        (Returned(frames[c]) /\ frames[c].op = "Lookup") =>
            /\ frames[c].res.err # NoErr =>
                    frames[c].ret = [ips |-> <<>>, err |-> frames[c].res.err]
            /\ (frames[c].res.err = NoErr /\ Len(frames[c].res.result) = 0) =>
                    frames[c].ret = [ips |-> <<>>, err |-> ErrNotFound]
            /\ frames[c].ret.err # NoErr => frames[c].ret.ips = <<>>

\* A Lookup has returned the resolver's error.
C15_Witness ==
    \E c \in Callers :
        /\ Returned(frames[c])
        /\ frames[c].op = "Lookup"
        /\ frames[c].res = [result |-> <<>>, err |-> ErrResolver]
        /\ frames[c].ret = [ips |-> <<>>, err |-> ErrResolver]

\* The frames of the callers and of the refresh goroutines.
AllFrames == {frames[c] : c \in Callers} \cup {bgs[i] : i \in 1..Len(bgs)}

\* The resolution of frame f has succeeded.
Resolved(f) == f.res.err = NoErr /\ Len(f.res.result) # 0

\* C16: dc.OnStats is called once for each resolution that succeeded, in
\* Lookup, in a synchronous lookupAndUpdate and in a refresh goroutine, with
\* the host and the text of the resolved addresses, in the step in which the
\* resolver answers: before the frame returns and, in lookupAndUpdate, before
\* dc.Set is called.  It is not called for a resolution that failed, nor by a
\* call that returned from the cache.
C16_StatsOncePerResolution ==
    /\ [](\A f \in AllFrames :
            /\ f.pc \in {"idle", "lookupAndUpdate", "LookupIP"} => f.stats = <<>>
            /\ (f.pc = "Set" /\ f.op # "Set") =>
                    /\ Resolved(f)
                    /\ f.stats = <<StatsCall(f.host, f.res.result)>>
                    /\ f.set = ZeroIPCache
            /\ Returned(f) =>
                    f.stats = IF Resolved(f)
                              THEN <<StatsCall(f.host, f.res.result)>>
                              ELSE <<>>)
    /\ [][/\ \A c \in Callers :
                frames'[c].stats \notin {<<>>, frames[c].stats} =>
                    frames[c].pc = "LookupIP" /\ m' = m
           /\ \A i \in 1..MaxInFlight :
                (i <= Len(bgs) /\ Len(bgs') = Len(bgs)
                    /\ bgs'[i].pc # bgs[i].pc /\ bgs'[i].stats # <<>>) =>
                        \/ bgs[i].pc = "LookupIP" /\ m' = m
                        \/ bgs[i].pc = "Set" /\ bgs'[i].stats = bgs[i].stats]_vars

\* A refresh goroutine has resolved two addresses and called the observer with
\* their text; it has not called dc.Set yet and storage holds the old entry.
C16_Witness ==
    \E i \in 1..Len(bgs) :
        /\ bgs[i].pc = "Set"
        /\ bgs[i].stats = <<[host |-> bgs[i].host,
                             ipAddrs |-> <<"2001:db8::1", "1.1.1.1">>]>>
        /\ m[bgs[i].host].present
        /\ m[bgs[i].host].val.IPAddrs = <<"a">>

\* C17: an entry leaves storage only in the step of a Delete of its host:
\* not when time passes, not in a cache hit, not in a resolution that succeeds
\* or fails; and a stored entry, expired or not, is what a Get reads.
C17_NoImplicitEviction ==
    /\ [][\A h \in Hosts :
            (m[h].present /\ ~m'[h].present) =>
                \E c \in Callers :
                    OpReturnStep(c, "Delete") /\ frames'[c].host = h]_vars
    /\ [](\A h \in Hosts :
            m[h].present =>
                Storage_Get(m, h, FALSE) = [cache |-> m[h].val, err |-> NoErr])
    /\ [](\A c \in Callers :
            (Returned(frames[c]) /\ frames[c].op = "Get"
                /\ m[frames[c].host].present /\ frames[c].getErr # ErrStorage) =>
                    frames[c].ret.err = NoErr)

\* A Get has returned an entry whose ttl + stale passed a tick ago or more.
C17_Witness ==
    \E c \in Callers :
        /\ Returned(frames[c])
        /\ frames[c].op = "Get"
        /\ frames[c].ret.err = NoErr
        /\ TimeBounded(frames[c].ipCache)
        /\ now > frames[c].ipCache.CreatedAt + TTL + Stale

\* An IP is an IPv4 address (in its 4-byte or its 16-byte form) or an IPv6
\* address.
IsIPv4(ip) == To4(ip) # <<>>
IsIPv6(ip) == Len(ip) = IPv6len /\ To4(ip) = <<>>

\* An address list with every IPv4 address in its 4-byte form.
Canonical(ipAddrs) ==
    [i \in 1..Len(ipAddrs) |->
        IF IsIPv4(ipAddrs[i]) THEN To4(ipAddrs[i]) ELSE ipAddrs[i]]

\* The addresses of a list that belong to the family of the network, in the
\* order of the list; the whole list for a network without family.
OfFamily(ipAddrs, network) ==
    CASE network \in {"tcp4", "udp4"} -> SelectSeq(ipAddrs, IsIPv4)
      [] network \in {"tcp6", "udp6"} -> SelectSeq(ipAddrs, IsIPv6)
      [] OTHER -> ipAddrs

\* A getIP that has returned after its LookupWithCache returned addresses.
Selected == dial.pc = "returned" /\ Len(dial.ipAddrs) # 0

\* C18 as written: the candidates of a getIP are the addresses of the
\* requested family, in their order, whichever form an IPv4 address has, and
\* the address selected is one of them; a network without family filters
\* nothing.
C18_Original ==
    Selected =>
        /\ Canonical(dial.candidates) =
                Canonical(OfFamily(dial.ipAddrs, dial.network))
        /\ dial.err = NoErr =>
                \E i \in 1..Len(OfFamily(dial.ipAddrs, dial.network)) :
                    dial.ip = String(OfFamily(dial.ipAddrs, dial.network)[i])

\* getIP with "tcp6" has selected 1.1.1.2, an IPv4 address stored in its
\* 16-byte form.
C18_Witness ==
    /\ Selected
    /\ dial.network = "tcp6"
    /\ dial.ipAddrs = <<IPv4(1, 1, 1, 2)>>
    /\ dial.err = NoErr
    /\ dial.ip = "1.1.1.2"

\* C19: a getIP whose family filter leaves no address returns ErrNotFound
\* and no address, and the step selects nothing: dc.index stays as it was.
C19_EmptyFilterNotFound ==
    /\ []((/\ Selected
            /\ ipLength(dial.network) # 0
            /\ filterIPByLen(dial.ipAddrs, ipLength(dial.network)) = <<>>) =>
                /\ dial.candidates = <<>>
                /\ dial.err = ErrNotFound
                /\ dial.ip = "")
    /\ [][(dial'.pc = "returned" /\ dial'.candidates = <<>>) =>
                /\ index' = index
                /\ dial'.ip = ""
                /\ dial'.err # NoErr]_vars

\* Only 1.1.1.1, in its 4-byte form, was resolved and "tcp6" was asked for.
C19_Witness ==
    /\ Selected
    /\ dial.network = "tcp6"
    /\ dial.ipAddrs = <<IPBytes.a>>
    /\ dial.candidates = <<>>
    /\ dial.err = ErrNotFound
    /\ dial.ip = ""

\* C20: with PolicyFirst a getIP that selects returns the first address of
\* the filtered list: the address is fixed by the address list and the network,
\* whatever dc.index is and however many getIP calls, for this host or another,
\* have been made; and dc.index is never changed.
C20_FirstIsDeterministic ==
    /\ [](Policy = PolicyFirst =>
            /\ index = 0
            /\ (Selected /\ dial.err = NoErr) =>
                    LET filtered ==
                            IF ipLength(dial.network) # 0
                            THEN filterIPByLen(dial.ipAddrs, ipLength(dial.network))
                            ELSE dial.ipAddrs
                    IN  /\ dial.candidates = filtered
                        /\ dial.ip = String(filtered[1]))
    /\ [][(Policy = PolicyFirst /\ dial'.pc = "returned") => index' = index]_vars

\* The last getIP of a run, on a list of three addresses of which "udp4"
\* leaves two, has returned the first of the two.
C20_Witness ==
    /\ Policy = PolicyFirst
    /\ Selected
    /\ dial.calls = MaxPicks
    /\ dial.network = "udp4"
    /\ dial.ipAddrs = <<IPBytes.c, IPBytes.b, IPBytes.a>>
    /\ Len(dial.candidates) = 2
    /\ dial.ip = "1.1.1.2"
    /\ index = 0

\* The goroutines that hold a value of the counter: past atomic.AddInt32.
HoldsValue(p) == picks[p].pc \in {"index", "done"}

\* A step in which goroutine p adds to the counter.
Adds(p) == picks[p].pc = "AddInt32" /\ picks'[p].pc = "index"

\* What a step may do to the counter: it never falls, an addition raises it
\* by one and hands the new value to the goroutine, nothing else changes it.
C21_CounterStep ==
    /\ index' >= index
    /\ \A p \in Pickers :
            \/ ~Adds(p)
            \/ /\ index' - index = 1
               /\ picks'[p].value = index'
    /\ \/ index' = index
       \/ \E p \in Pickers : Adds(p)

\* C21 as written: each selection adds exactly one to the one counter of the
\* instance and the counter only grows; the address returned is the one at
\* the new value modulo the length of the list; the counter changes in no
\* other step, so no increment is lost; and no two selections in progress hold
\* the same value.
C21_Original ==
    /\ [][C21_CounterStep]_vars
    /\ [](\A p \in Pickers :
            picks[p].pc = "done" =>
                /\ ~picks[p].panic
                /\ picks[p].ip =
                        String(picks[p].ipAddrs[
                            (picks[p].value % Len(picks[p].ipAddrs)) + 1]))
    /\ [](\A p, q \in Pickers :
            (p # q /\ HoldsValue(p) /\ HoldsValue(q)) =>
                picks[p].value # picks[q].value)

\* The counter has gone from 2^31 - 1 to -2^31: a selection holds the new,
\* smaller value.
C21_Witness ==
    /\ index = 0 - MaxInt32 - 1
    /\ \E p \in Pickers : HoldsValue(p) /\ picks[p].value = index

\* C29 as written: under PolicyRoundRobin the index dc.pick computes is within
\* the list for every value of the 32-bit counter, also after it wrapped: a
\* pick never indexes outside the list and returns one of its addresses.
C29_Original ==
    \A p \in Pickers :
        picks[p].pc = "done" =>
            /\ ~picks[p].panic
            /\ GoRem(picks[p].value, Len(picks[p].ipAddrs))
                    \in 0..(Len(picks[p].ipAddrs) - 1)
            /\ \E i \in 1..Len(picks[p].ipAddrs) :
                    picks[p].ip = String(picks[p].ipAddrs[i])

\* A pick that read the wrapped counter computed -2 for a list of three and
\* indexed outside it.
C29_Witness ==
    \E p \in Pickers :
        /\ picks[p].pc = "done"
        /\ picks[p].panic
        /\ picks[p].value = 0 - MaxInt32 - 1
        /\ Len(picks[p].ipAddrs) = 3
        /\ GoRem(picks[p].value, 3) = 0 - 2

\* What getIP(ctx, network, h) would return in this state if the resolver
\* answered r and r.Int() were rnd.
GetIPNow(network, h, r, rnd) ==
    getIP_Select(LookupWithCache_Run(m, bgs, h, now, TTL, Stale, r).ret,
                 network, Policy, index, rnd)

\* Every candidate of such a call is returned for some value of r.Int().
AnyMemberPossible(network, h, r) ==
    LET candidates == GetIPNow(network, h, r, 0).candidates
    IN  \A k \in 1..Len(candidates) :
            \E rnd \in RandInts :
                /\ GetIPNow(network, h, r, rnd).err = NoErr
                /\ GetIPNow(network, h, r, rnd).ip = String(candidates[k])

\* C22: with PolicyRandom a getIP that has candidates returns one of them and
\* never indexes outside the list; whatever selections came before, each
\* candidate of the call can be the one returned; and no selection leaves
\* anything in dc.index, which is 0 as New left it.
C22_RandomPicksAnyMember ==
    Policy = PolicyRandom =>
        /\ index = 0
        /\ (Selected /\ dial.candidates # <<>>) =>
                /\ dial.err = NoErr
                /\ \E i \in 1..Len(dial.candidates) :
                        dial.ip = String(dial.candidates[i])
        /\ dial.pc = "idle" =>
                \A network \in Networks, h \in DialHosts,
                   r \in DialResolverResults :
                    AnyMemberPossible(network, h, r)

\* After two earlier getIP calls, a third one under PolicyRandom on a list of
\* three addresses has returned the last of them.
C22_Witness ==
    /\ Policy = PolicyRandom
    /\ Selected
    /\ dial.calls = 3
    /\ dial.network = "tcp"
    /\ dial.candidates = <<IPBytes.c, IPBytes.b, IPBytes.a>>
    /\ dial.ip = "1.1.1.1"
    /\ dial.err = NoErr

\* The dial function has returned (or panicked), and the one call of the
\* connector a dial function makes, with the caller's context and network.
ConnReturned == conn.pc = "returned"
Dials(addr) == <<[ctx |-> conn.ctx, network |-> conn.network, addr |-> addr]>>

\* The targets whose host is an address literal, bare or in brackets.
BareTarget(l) == l \o Port
BracketTarget(l) == <<"[">> \o l \o <<"]">> \o Port
IsLiteralTarget(addr) ==
    \E l \in Literals : addr \in {BareTarget(l), BracketTarget(l)}

\* C23: a call of the dial function whose host is an address literal, bare
\* or in brackets, never calls LookupWithCache: in no step of the call is the
\* resolver invoked or a refresh started, and storage and dc.index are as they
\* were.
C23_LiteralSkipsResolution ==
    [][(IsLiteralTarget(conn.addr) \/ IsLiteralTarget(conn'.addr)) =>
            /\ m' = m
            /\ bgs' = bgs
            /\ index' = index
            /\ ~conn'.lookedUp
            /\ ~conn'.resolved]_vars

\* "[2001:db8::1]:443" was dialled while storage was empty.
C23_Witness ==
    /\ ConnReturned
    /\ conn.addr = BracketTarget(Text(IPBytes.b))
    /\ Len(conn.dialed) = 1
    /\ conn.err = NoErr
    /\ ~conn.lookedUp
    /\ \A h \in AdapterHosts : ~m[h].present

\* C24 as written: for a target whose host is an address literal, bare or in
\* brackets, the connector is called with the target as it was supplied.
C24_Original ==
    (ConnReturned /\ IsLiteralTarget(conn.addr)) =>
        conn.dialed = Dials(conn.addr)

\* C24: for a target whose host is an address literal the connector is called
\* once, with the literal as it was written, in brackets if and only if it has
\* a colon, and the port suffix.  That is the target as supplied for a bare
\* IPv4 literal and for an IPv6 literal in brackets; a bare IPv6 literal is
\* given brackets and an IPv4 literal in brackets loses them.
C24_LiteralDialNormalised ==
    ConnReturned =>
        \A l \in Literals :
            conn.addr \in {BareTarget(l), BracketTarget(l)} =>
                /\ ~conn.panic
                /\ conn.ipErr = NoErr
                /\ conn.dialed =
                        Dials(IF \E i \in 1..Len(l) : l[i] = ":"
                              THEN BracketTarget(l)
                              ELSE BareTarget(l))

\* "2001:db8::1:443" was supplied and "[2001:db8::1]:443" was dialled.
C24_Witness ==
    /\ ConnReturned
    /\ conn.addr = BareTarget(Text(IPBytes.b))
    /\ conn.dialed = Dials(BracketTarget(Text(IPBytes.b)))

\* C25: for a target whose host is a name and whose resolution succeeded, the
\* connector is called once, with the caller's context and network and with
\* the address selected, one of those now stored for the host, followed by the
\* port suffix; the address is in brackets if and only if it is an IPv6
\* address.
C25_NameDialsSelectedAddress ==
    (/\ ConnReturned
     /\ conn.addr \in {<<"h1">> \o Port, Port}
     /\ conn.ipErr = NoErr) =>
        LET host == Flat(SubSeq(conn.addr, 1, Len(conn.addr) - 2))
            stored == m[host].val.IPAddrs
        IN  /\ conn.lookedUp
            /\ Len(conn.dialed) = 1
            /\ conn.dialed[1].ctx = conn.ctx
            /\ conn.dialed[1].network = conn.network
            /\ \E i \in 1..Len(stored) :
                    /\ conn.ip = Text(IPBytes[stored[i]])
                    /\ conn.dialed[1].addr =
                            IF IsIPv6(IPBytes[stored[i]])
                            THEN BracketTarget(Text(IPBytes[stored[i]]))
                            ELSE BareTarget(Text(IPBytes[stored[i]]))

\* "h1:443" was dialled over "tcp6" with the second context, h1 resolved to
\* 2001:db8::1, and the connector got "[2001:db8::1]:443".
C25_Witness ==
    /\ ConnReturned
    /\ conn.addr = <<"h1">> \o Port
    /\ conn.ctx = "ctx2"
    /\ conn.network = "tcp6"
    /\ conn.resolved
    /\ conn.dialed =
            <<[ctx |-> "ctx2", network |-> "tcp6",
               addr |-> <<"[", "2001", ":", "db8", ":", ":", "1", "]", ":", "443">>]>>

\* C26: when getIP fails, a dial function built with the fallback option true
\* calls the connector once, with the caller's context and network and the
\* target as supplied, and returns what the connector returns; built without
\* the option or with false, it returns getIP's error and never calls the
\* connector.
C26_FallbackOnlyWithOption ==
    (conn.pc \in {"dial", "returned"} /\ conn.ipErr \notin {NoErr, "panic"}) =>
        IF conn.opts = <<TRUE>>
        THEN /\ conn.pc = "dial" => conn.target = conn.addr /\ conn.dialed = <<>>
             /\ conn.pc = "returned" =>
                    conn.dialed = Dials(conn.addr) /\ conn.err \in DialResults
        ELSE /\ conn.pc = "returned"
             /\ conn.dialed = <<>>
             /\ conn.err = conn.ipErr

\* The resolver failed for "h1:443" and, the option being true, the connector
\* was called with "h1:443" and connected.
C26_Witness ==
    /\ ConnReturned
    /\ conn.opts = <<TRUE>>
    /\ conn.ipErr = ErrResolver
    /\ conn.addr = <<"h1">> \o Port
    /\ conn.dialed = Dials(<<"h1">> \o Port)
    /\ conn.err = NoErr

\* C30 as written: for every target, also one without a colon and one with an
\* empty host, the dial function returns a connection or an error: it never
\* panics.
C30_Original == ConnReturned => ~conn.panic

\* The target "h1" has no colon: addr[:sepIndex] with sepIndex -1 panicked
\* before getIP or the connector was called.
C30_Witness ==
    /\ ConnReturned
    /\ conn.panic
    /\ conn.addr = <<"h1">>
    /\ LastIndex(conn.addr, ":") = 0 - 1
    /\ ~conn.lookedUp
    /\ conn.dialed = <<>>

\* What the LookupWithCache that caller c starts in this step does with the
\* entry it read: serves it with nothing else started, serves it and starts a
\* refresh, or goes on to the synchronous resolution.
ServesFresh(c) == Returned(frames'[c]) /\ bgs' = bgs
ServesStale(c) == Returned(frames'[c]) /\ Len(bgs') = Len(bgs) + 1
Resolves(c) == frames'[c].pc = "lookupAndUpdate" /\ bgs' = bgs

\* The windows of C27, with and without the lower bound on the fresh one.
InFreshWindow(e, t) == e.CreatedAt <= t /\ t < e.CreatedAt + TTL
InStaleWindow(e, t) ==
    Stale > 0 /\ e.CreatedAt + TTL <= t /\ t < e.CreatedAt + TTL + Stale

\* C27 as written: a time-bounded entry is served as fresh iff
\* createdAt <= now < createdAt + ttl, served with a refresh iff stale > 0 and
\* createdAt + ttl <= now < createdAt + ttl + stale, and resolved anew
\* otherwise; with stale = 0 no refresh is started.
C27_Original ==
    [][\A c \in Callers :
        (LWCStep(c) /\ TimeBounded(frames'[c].ipCache)) =>
            /\ ServesFresh(c) <=> InFreshWindow(frames'[c].ipCache, frames'[c].now)
            /\ ServesStale(c) <=> InStaleWindow(frames'[c].ipCache, frames'[c].now)
            /\ Resolves(c) <=>
                    /\ ~InFreshWindow(frames'[c].ipCache, frames'[c].now)
                    /\ ~InStaleWindow(frames'[c].ipCache, frames'[c].now)
            /\ Stale = 0 => bgs' = bgs]_vars

\* C27: a time-bounded entry is served as fresh iff now < createdAt + ttl
\* (also when createdAt is later than now), served with a refresh iff
\* stale > 0 and createdAt + ttl <= now < createdAt + ttl + stale, and resolved
\* anew iff now >= createdAt + ttl + stale: exactly one of the three.  At
\* now = createdAt + ttl it is not served as fresh, at
\* now = createdAt + ttl + stale it is not served, and with stale = 0 no
\* refresh is ever started.
C27_HalfOpenWindows ==
    /\ [][\A c \in Callers :
            (LWCStep(c) /\ TimeBounded(frames'[c].ipCache)) =>
                /\ ServesFresh(c) <=>
                        frames'[c].now < frames'[c].ipCache.CreatedAt + TTL
                /\ ServesStale(c) <=>
                        InStaleWindow(frames'[c].ipCache, frames'[c].now)
                /\ Resolves(c) <=>
                        frames'[c].now >=
                            frames'[c].ipCache.CreatedAt + TTL + Stale
                /\ ServesFresh(c) \/ ServesStale(c) \/ Resolves(c)
                /\ ~(ServesFresh(c) /\ ServesStale(c))
                /\ frames'[c].now = frames'[c].ipCache.CreatedAt + TTL =>
                        ~ServesFresh(c)
                /\ frames'[c].now = frames'[c].ipCache.CreatedAt + TTL + Stale =>
                        Resolves(c)]_vars
    /\ [](Stale = 0 => bgs = <<>>)

\* With ttl = 1 and stale = 1 an entry was read at now = createdAt + 2, the
\* end of its stale window, and the call went on to resolve.
C27_Witness ==
    \E c \in Callers :
        /\ IsLWC(frames[c])
        /\ TimeBounded(frames[c].ipCache)
        /\ TTL = 1
        /\ Stale = 1
        /\ frames[c].now = frames[c].ipCache.CreatedAt + 2
        /\ frames[c].pc = "lookupAndUpdate"
        /\ bgs = <<>>

\* Refresh goroutine i, not yet at its return, is still there after the step,
\* where it was or moved on, at its place or one down when another one ended.
StillRuns(i) ==
    \E j \in {i - 1, i} \cap 1..Len(bgs') :
        /\ bgs'[j].op = "refresh"
        /\ bgs'[j].host = bgs[i].host
        /\ \/ [bgs'[j] EXCEPT !.over = bgs[i].over] = bgs[i]
           \/ bgs[i].pc = "LookupIP" /\ bgs'[j].pc \in {"Set", "returned"}
           \/ bgs[i].pc = "Set" /\ bgs'[j].pc = "returned"

StepOn(h) ==
    \/ \E c \in Callers : frames'[c] # frames[c] /\ frames'[c].host = h
    \/ \E i \in 1..Len(bgs) :
            /\ Len(bgs') = Len(bgs)
            /\ bgs'[i] # bgs[i]
            /\ bgs[i].host = h

\* C31: a step of a set, delete, get, lookup, lookupWithCache or refresh of
\* host h leaves the slot of every other host as it was, and only such a step
\* changes the slot of h; a get of h answers from the slot of exactly h.  "h1"
\* and "H1" are two keys.
C31_OtherHostsUntouched ==
    /\ [][\A h \in CaseHosts :
            /\ StepOn(h) => \A g \in CaseHosts \ {h} : m'[g] = m[g]
            /\ m'[h] # m[h] => StepOn(h)]_vars
    /\ [](\A c \in Callers :
            (Returned(frames[c]) /\ frames[c].op = "Get") =>
                IF m[frames[c].host].present
                THEN /\ frames[c].getErr = NoErr
                     /\ frames[c].ipCache = m[frames[c].host].val
                ELSE frames[c].getErr = ErrNotFound)

\* "h1" holds <<"a">> and a get of "H1" has answered ErrNotFound.
C31_Witness ==
    /\ m["h1"].present
    /\ m["h1"].val.IPAddrs = <<"a">>
    /\ ~m["H1"].present
    /\ \E c \in Callers :
            /\ Returned(frames[c])
            /\ frames[c].op = "Get"
            /\ frames[c].host = "H1"
            /\ frames[c].ret = [ips |-> <<>>, err |-> ErrNotFound]

\* A Delete(h) has just returned to its caller.
DeleteReturned(h) ==
    \E c \in Callers :
        Returned(frames[c]) /\ frames[c].op = "Delete" /\ frames[c].host = h

\* A refresh goroutine of host h has not yet come to its dc.Set.
RefreshInFlight(h) ==
    \E i \in 1..Len(bgs) :
        bgs[i].host = h /\ bgs[i].pc = "LookupIP" /\ bgs[i].res = NotCalled

\* C32: what a user's Delete or Set left in the slot of h is not changed by a
\* step of a refresh goroutine, for the slots whose writer the state shows.
\* An empty slot with a refresh of h running was left by a Delete that
\* returned after that refresh was started (a refresh is started off a stored
\* entry, and only Delete empties a slot); an entry with addresses and the
\* zero CreatedAt was left by a Set, after every refresh now running was
\* started (a resolution stores time.Now(), and no refresh is started off
\* such an entry).  In the steps that are of no caller, the empty slot stays
\* empty and that entry stays as it is.
C32_Original ==
    [][\A h \in Hosts :
        frames' = frames =>
            /\ ~m[h].present => ~m'[h].present
            /\ (m[h].present /\ Permanent(m[h].val)) => m'[h] = m[h]]_vars

\* A Delete has returned while a refresh of the same host, started by an
\* earlier stale hit, is still waiting for the resolver.
C32_Witness ==
    \E h \in Hosts :
        /\ DeleteReturned(h)
        /\ RefreshInFlight(h)
        /\ ~m[h].present

\* A step of caller c's LookupWithCache on its way to the resolver: the call
\* itself, and the entry into lookupAndUpdate.
TowardsResolver(c) ==
    /\ IsLWC(frames'[c])
    /\ frames'[c] # frames[c]
    /\ frames'[c].pc \in {"lookupAndUpdate", "LookupIP"}

\* The step in which the resolver answers caller c's LookupWithCache with an
\* error or with no address.
SyncFailStep(c) ==
    /\ IsLWC(frames[c])
    /\ frames[c].pc = "LookupIP"
    /\ frames'[c] # frames[c]
    /\ ~Resolved(frames'[c])

\* C33: a LookupWithCache whose synchronous resolution fails writes nothing:
\* no step of the call, from its storage read to its return, changes storage,
\* so an absent host is not created and an expired entry is left as it is;
\* the call returns in the step of the resolver's answer, without calling
\* dc.Set, with the resolver's error (ErrNotFound for no address) and no
\* addresses, whatever entry it had read.
C33_SyncFailureLeavesStorage ==
    [][\A c \in Callers :
        /\ TowardsResolver(c) => m' = m
        /\ SyncFailStep(c) =>
            /\ m' = m
            /\ bgs' = bgs
            /\ Returned(frames'[c])
            /\ ~CalledSet(frames'[c])
            /\ frames'[c].set = ZeroIPCache
            /\ frames'[c].ret =
                [ips |-> <<>>,
                 err |-> IF frames'[c].res.err # NoErr
                         THEN frames'[c].res.err
                         ELSE ErrNotFound]]_vars

\* A LookupWithCache has returned the resolver's error and no addresses while
\* the host's entry, with addresses and past its ttl and stale, is in storage.
C33_Witness ==
    \E c \in Callers :
        /\ ReturnedSync(frames[c])
        /\ frames[c].ret = [ips |-> <<>>, err |-> ErrResolver]
        /\ m[frames[c].host].present
        /\ TimeBounded(m[frames[c].host].val)
        /\ m[frames[c].host].val.CreatedAt + TTL + Stale < now
        /\ bgs = <<>>

====
